---- MODULE Spec2Model ----
(***************************************************************************)
(* The browser runtime of duckdb-wasm (BROWSER_RUNTIME): the synchronous   *)
(* filesystem bridge the engine calls for open, read, write, truncate and  *)
(* close on HTTP, S3, file-reader, in-memory and sandboxed-storage (OPFS)  *)
(* files, and the asynchronous pre-open of sandboxed-storage files.  Every *)
(* XMLHttpRequest the bridge sends is answered by the environment; the     *)
(* answers are drawn from the responses an HTTP server can give to that    *)
(* request.                                                                *)
(***************************************************************************)
EXTENDS Integers, Sequences, FiniteSets, TLC

\* ------------------------------------------------------------------ bounds
\* Largest remote object / registered blob, in bytes.
MaxBody == 2
\* Largest `bytes` argument of readFile.
MaxBytes == 2
\* How far past the largest object a read may start.
MaxPast == 1
\* How many access sessions the sandboxed storage hands out.
MaxSessions == 2
\* How many openFileAsync calls can be in flight at once.
MaxAsync == 1

\* ------------------------------------------------------------- file table
\* The file id the engine calls the runtime with.  The engine's record of it
\* says HTTP, S3 or file reader, or the engine has no record of the id.
FileId == 1
FileIds == {FileId}

RemoteProtocols == {"HTTP", "S3"}
IsRemote(proto) == proto \in RemoteProtocols

UrlOf(proto) == IF proto = "S3" THEN "s3://bucket/a" ELSE "http://host/a"
ReaderName == "local.csv"
\* The name of the sandboxed-storage (OPFS) file.
OpfsName == "opfs://data.db"

\* The object served at a remote url / held by a blob: bytes 1, 2, ..., n, so
\* that every position holds a different byte.
Body(n) == [i \in 1..n |-> i]

\* A response header that is absent (getResponseHeader returns null).
NoHeader == -1

Min(a, b) == IF a < b THEN a ELSE b

\* `new Uint8Array(buffer, byteOffset, length)`: a view of `length` bytes from
\* `byteOffset`; a RangeError when the offset or the length leaves the buffer.
ViewOk(buf, off, n) == off >= 0 /\ n >= 0 /\ off + n <= Len(buf)
View(buf, off, n) == SubSeq(buf, off + 1, off + n)

\* Blob.slice(start, end): clamped to the blob.
BlobSlice(buf, start, end) ==
    LET s == Min(start, Len(buf))
        e == Min(end, Len(buf))
    IN IF e <= s THEN <<>> ELSE SubSeq(buf, s + 1, e)

\* ------------------------------------------------- the HTTP environment
\* A response as the bridge reads it from a synchronous XMLHttpRequest:
\* threw (send raised a network error), status, the response body, the
\* Content-Length header, the total after '/' in Content-Range, and how the
\* server treated the Range header.  (The runtime never reads Accept-Ranges.)
Resp(mode, status, body, len, total) ==
    [mode |-> mode, threw |-> FALSE, status |-> status, body |-> body,
     contentLength |-> len, contentRange |-> total]

Threw ==
    [mode |-> "threw", threw |-> TRUE, status |-> 0, body |-> <<>>,
     contentLength |-> NoHeader, contentRange |-> NoHeader]

NoResp ==
    [mode |-> "unsent", threw |-> FALSE, status |-> 0, body |-> <<>>,
     contentLength |-> NoHeader, contentRange |-> NoHeader]

\* Answers to HEAD (with or without `Range: bytes=0-`) for an object `obj`.
\* A server that refuses HEAD (403) may announce the length of its error
\* page, which is no length of the object.
HeadResponses(obj) ==
    { Threw,
      Resp("honours", 206, <<>>, Len(obj), NoHeader),
      Resp("ignores", 200, <<>>, Len(obj), NoHeader),
      Resp("ignores", 200, <<>>, NoHeader, NoHeader),
      Resp("error", 404, <<>>, NoHeader, NoHeader),
      Resp("error", 403, <<>>, Len(obj) + 2, NoHeader) }

\* Answers to GET with `Range: bytes=lo-hi` (lo <= hi or not) for `obj`:
\*  - the server honours the range: 206 and the bytes of [lo, hi] that exist,
\*    416 when none exists; Content-Length and Content-Range may be hidden
\*    from the caller (cross-origin responses, chunked transfer);
\*  - the server answers a longer range than asked for: 206 and the bytes
\*    from lo to the end of the object;
\*  - the server ignores the range: 200 and the whole object;
\*  - the server refuses (403), or the request dies in transport.
RangedGetResponses(obj, lo, hi) ==
    LET n == Min(hi, Len(obj) - 1) - lo + 1
        sat == lo >= 0 /\ lo < Len(obj) /\ n >= 1
        part == IF sat THEN View(obj, lo, n) ELSE <<>>
    IN { Threw,
         Resp("error", 403, <<>>, NoHeader, NoHeader),
         Resp("ignores", 200, obj, Len(obj), NoHeader),
         Resp("ignores", 200, obj, NoHeader, NoHeader) }
       \cup
       (IF sat
        THEN { Resp("honours", 206, part, Len(part), Len(obj)),
               Resp("honours", 206, part, Len(part), NoHeader),
               Resp("honours", 206, part, NoHeader, NoHeader) }
        ELSE { Resp("honours", 416, <<>>, NoHeader, NoHeader) })
       \cup
       (IF sat /\ Len(obj) - lo > n
        THEN { Resp("overshoots", 206, View(obj, lo, Len(obj) - lo), Len(obj) - lo, Len(obj)) }
        ELSE {})

\* Answers to GET without a Range header.
PlainGetResponses(obj) ==
    { Threw,
      Resp("plain", 200, obj, Len(obj), NoHeader),
      Resp("error", 404, <<>>, NoHeader, NoHeader) }

\* ------------------------------------------------------------------ state
VARIABLES
    engine,         \* the engine's file table: fileId -> DuckDBFileInfo it serialises
    opened,         \* what the engine holds per file after openFile returned a result
    remote,         \* url -> the bytes of the remote object
    files,          \* BROWSER_RUNTIME._files: name -> registered handle
    fileInfoCache,  \* BROWSER_RUNTIME._fileInfoCache: fileId -> DuckDBFileInfo
    storage,        \* sandboxed storage: the bytes of the file and its access sessions
    pending,        \* the openFileAsync calls in flight and the await each one is at
    engineGlobalInfo, \* the engine's global file info (DuckDBGlobalFileInfo it serialises)
    globalFileInfo, \* BROWSER_RUNTIME._globalFileInfo
    last            \* the last call the engine made into the runtime, and its outcome

vars ==
    <<engine, opened, remote, files, fileInfoCache, storage, pending, engineGlobalInfo,
      globalFileInfo, last>>

\* A DuckDBFileInfo as the engine serialises it (null when `present` is FALSE).
FileInfo(id, proto, epoch, reliable, allowFull) ==
    [present |-> TRUE, fileId |-> id,
     fileName |-> IF IsRemote(proto) THEN UrlOf(proto)
                  ELSE IF proto = "BROWSER_FSACCESS" THEN OpfsName ELSE ReaderName,
     dataProtocol |-> proto,
     dataUrl |-> IF IsRemote(proto) THEN UrlOf(proto) ELSE "",
     reliableHeadRequests |-> reliable, allowFullHttpReads |-> allowFull,
     cacheEpoch |-> epoch]

NoFile ==
    [present |-> FALSE, fileId |-> 0, fileName |-> "", dataProtocol |-> "NONE",
     dataUrl |-> "", reliableHeadRequests |-> FALSE, allowFullHttpReads |-> FALSE,
     cacheEpoch |-> 0]

\* The engine's side of an open file: how it was opened ("none": not opened,
\* "range": a size and no buffer, "buffer": a size and the whole content,
\* "write": the buffer handed out for writing), the size and the buffer.
NotOpened == [mode |-> "none", size |-> 0, buf |-> <<>>]

\* duckdb_web_fs_get_file_info_by_id(fileId, epoch): an error status for an id
\* the engine does not know, an empty payload (n = 0) when the caller's epoch is
\* current, the serialised record otherwise.
EngineFileInfoById(id, epoch) ==
    IF ~engine[id].present THEN [s |-> "ERROR", n |-> 0, info |-> NoFile]
    ELSE IF engine[id].cacheEpoch = epoch THEN [s |-> "SUCCESS", n |-> 0, info |-> NoFile]
    ELSE [s |-> "SUCCESS", n |-> 1, info |-> engine[id]]

\* A fileId that is not a number (`typeof fileId !== 'number'`).
NotANumber == 99
NoEpoch == -1

\* Mutant: a cached record is returned without asking the engine.
GetFileInfoCachedFirst(cache, id) ==
    IF id = NotANumber \/ id < 0 THEN [file |-> NoFile, cache |-> cache, epoch |-> NoEpoch]
    ELSE IF cache[id].present
    THEN [file |-> cache[id], cache |-> cache, epoch |-> cache[id].cacheEpoch]
    ELSE LET r == EngineFileInfoById(id, 0)
         IN  IF r.s # "SUCCESS" THEN [file |-> NoFile, cache |-> cache, epoch |-> 0]
             ELSE [file |-> r.info, cache |-> [cache EXCEPT ![id] = r.info], epoch |-> 0]

\* getFileInfo(mod, fileId) on the cache `cache`: the record returned (null as
\* NoFile) and the cache afterwards.
\* `epoch` is the epoch it sent to the engine (NoEpoch: the engine was not asked).
GetFileInfo(cache, id) ==
    IF id = NotANumber \/ id < 0 THEN [file |-> NoFile, cache |-> cache, epoch |-> NoEpoch]
    ELSE
        LET cached == cache[id]
            epoch == IF cached.present THEN cached.cacheEpoch ELSE 0
            r == EngineFileInfoById(id, epoch)
        IN  IF r.s # "SUCCESS" THEN [file |-> NoFile, cache |-> cache, epoch |-> epoch]
            ELSE IF r.n = 0 THEN [file |-> cached, cache |-> cache, epoch |-> epoch]
            ELSE [file |-> r.info, cache |-> [cache EXCEPT ![id] = r.info],
                  epoch |-> epoch]

\* A DuckDBGlobalFileInfo as the engine serialises it; `present` FALSE is the
\* null BROWSER_RUNTIME._globalFileInfo starts with.
GlobalInfo(epoch, allowFull) ==
    [present |-> TRUE, cacheEpoch |-> epoch, allowFullHttpReads |-> allowFull]

NoGlobal == [present |-> FALSE, cacheEpoch |-> 0, allowFullHttpReads |-> FALSE]

\* duckdb_web_get_global_file_info(epoch): an empty payload (n = 0) when the
\* caller's epoch is current, the serialised record otherwise.
EngineGlobalFileInfo(epoch) ==
    IF engineGlobalInfo.cacheEpoch = epoch
    THEN [s |-> "SUCCESS", n |-> 0, info |-> NoGlobal]
    ELSE [s |-> "SUCCESS", n |-> 1, info |-> engineGlobalInfo]

\* getGlobalFileInfo(mod) with `cached` in BROWSER_RUNTIME._globalFileInfo: the
\* record returned (null as NoGlobal) and _globalFileInfo afterwards.
GetGlobalFileInfo(cached) ==
    LET r == EngineGlobalFileInfo(IF cached.present THEN cached.cacheEpoch ELSE 0)
    IN  IF r.s # "SUCCESS" THEN [info |-> NoGlobal, cached |-> cached]
        ELSE IF r.n = 0 THEN [info |-> cached, cached |-> cached]
        ELSE [info |-> r.info, cached |-> r.info]

\* ------------------------------------------- registry and sandboxed storage
\* `handle.file` and `handle.accessHandle` when they are undefined.
NoSnapshot == -1
NoSession == 0

\* An entry of BROWSER_RUNTIME._files (`present` FALSE: no entry under the
\* name).  A file-reader entry is a Blob; an OPFS entry (OPFSFileHandle) has a
\* directory handle, a file handle, `file` (the File snapshot getFile() returned,
\* here its size) and `accessHandle` (the sync access handle, here the number
\* of the session).  `emptyAsAbsent` is the option an OPFS entry can be
\* registered with; the constructors below leave it off.
Handle(present, blob, dirHandle, fileHandle, file, accessHandle) ==
    [present |-> present, blob |-> blob, dirHandle |-> dirHandle,
     fileHandle |-> fileHandle, file |-> file, accessHandle |-> accessHandle,
     emptyAsAbsent |-> FALSE]

NoHandle == Handle(FALSE, <<>>, FALSE, FALSE, NoSnapshot, NoSession)
ReaderHandle(blob) == Handle(TRUE, blob, FALSE, FALSE, NoSnapshot, NoSession)
OpfsHandle(dirHandle, fileHandle) ==
    Handle(TRUE, <<>>, dirHandle, fileHandle, NoSnapshot, NoSession)

Zeros(n) == [i \in 1..n |-> 0]

\* FileSystemSyncAccessHandle.read(buffer, {at}): fills a zeroed buffer of n
\* bytes with the bytes that exist from `at` on, returns how many it read.
AccessRead(content, n, at) ==
    LET num == IF at >= Len(content) THEN 0 ELSE Min(n, Len(content) - at)
    IN  [num |-> num,
         data |-> [i \in 1..n |-> IF i <= num THEN content[at + i] ELSE 0]]

\* Mutant: the bytes are written at the end of the file, wherever `at` is.
AccessAppend(content, input, at) == content \o input

\* FileSystemSyncAccessHandle.write(buffer, {at}): the file afterwards (a gap
\* before `at` is filled with zeros); the call returns the length of the buffer.
AccessWrite(content, input, at) ==
    LET end == at + Len(input)
        newLen == IF end > Len(content) THEN end ELSE Len(content)
    IN  [i \in 1..newLen |->
            IF i > at /\ i <= end THEN input[i - at]
            ELSE IF i <= Len(content) THEN content[i] ELSE 0]

\* FileSystemSyncAccessHandle.truncate(newSize): the file afterwards.
AccessTruncate(content, newSize) ==
    [i \in 1..newSize |-> IF i <= Len(content) THEN content[i] ELSE 0]

\* One call on a sync access handle: the method, the session it was called on
\* and whether that session was open (created and not closed) at that moment.
IoOp(op, session) ==
    [op |-> op, session |-> session,
     held |-> session # NoSession /\ storage.open = session]

\* assertOPFSHandle(tag, fileName, handle, requireAccessHandle): passes for a
\* registered handle, with a session when one is required, and throws otherwise.
AssertOPFSHandle(handle, requireAccessHandle) ==
    handle.present /\ (requireAccessHandle => handle.accessHandle # NoSession)

\* One XMLHttpRequest of the bridge and what came back: the place in the code
\* that sent it (step), method, url, Range header (<<lo, hi>>, hi = -1 for an
\* open end, <<-1, -1>> for none), the method the S3 signature was computed for
\* ("none" without signature), and the answer.
NoRange == <<-1, -1>>
Req(step, method, file, range, resp) ==
    [step |-> step, method |-> method, url |-> file.dataUrl, range |-> range,
     sig |-> IF file.dataProtocol = "S3" THEN method ELSE "none",
     threw |-> resp.threw, status |-> resp.status, mode |-> resp.mode,
     whole |-> (method = "GET" /\ resp.status = 200), sent |-> <<>>]

\* What an entry point hands back to the engine: the return value (for openFile
\* 0 is the null result, 1 a pointer to {size, buffer}), the calls of failWith,
\* the requests sent, the bytes copied to the destination, the calls made on
\* an access session (io), whether an exception left the entry point (raised)
\* and the paths handed to duckdb_web_fs_glob_add_path (added).
Outcome(ret, size, hasBuf, buf, fails, reqs, dst) ==
    [ret |-> ret, size |-> size, hasBuf |-> hasBuf, buf |-> buf,
     fails |-> fails, reqs |-> reqs, dst |-> dst, io |-> <<>>, raised |-> FALSE,
     added |-> <<>>]

Opened(size, hasBuf, buf, reqs) == Outcome(1, size, hasBuf, buf, 0, reqs, <<>>)
\* An exception reached the catch of the entry point: failWith, return 0.
Failed(reqs) == Outcome(0, 0, FALSE, <<>>, 1, reqs, <<>>)
\* `return 0` without failWith.
Nothing(reqs) == Outcome(0, 0, FALSE, <<>>, 0, reqs, <<>>)

\* An exception left the entry point: nothing caught it.
Raised(reqs) == [Nothing(reqs) EXCEPT !.raised = TRUE]

\* ---------------------------------------------------------------- openFile
\* FileFlags, as the set of the bits that are set.
OpenFlagSets ==
    { {"READ"}, {"WRITE"}, {"WRITE", "CREATE"}, {"READ", "WRITE"}, {"READ", "APPEND"},
      {"WRITE", "APPEND"}, {} }

\* The answers the environment gives to the requests of one call: the ranged
\* HEAD before the ladder (h1), the one-byte ranged GET (g), the HEAD sent for
\* the length (h2), the unranged GET (p), and the byte found in memory that
\* malloc returned and nothing initialised (junk).
Env(h1, g, h2, p, junk) == [h1 |-> h1, g |-> g, h2 |-> h2, p |-> p, junk |-> junk]
JunkBytes == {0, 255}

\* `if (file.reliableHeadRequests || !file.allowFullHttpReads)`
SendsFirstHead(file) == file.reliableHeadRequests \/ ~file.allowFullHttpReads

\* Mutant: the HEAD for the length is sent whenever Content-Range is missing,
\* also after the first HEAD was sent.
SendsSecondHeadAlways(file, contentRange) == contentRange = NoHeader

\* `if (contentRange !== undefined) ... else if (!file.reliableHeadRequests)`
SendsSecondHead(file, contentRange) ==
    contentRange = NoHeader /\ ~file.reliableHeadRequests

\* 3. the unranged GET and what follows it; `error` is the exception the first
\* HEAD left behind, if any.
OpenFullRead(file, env, error, reqs) ==
    LET reqs3 == Append(reqs, Req("full", "GET", file, NoRange, env.p))
    IN  IF env.p.threw THEN Failed(reqs3)
        ELSE IF env.p.status = 200
        THEN Opened(Len(env.p.body), TRUE, env.p.body, reqs3)
        ELSE IF error THEN Failed(reqs3)
        ELSE Nothing(reqs3)

\* 2. the one-byte ranged GET, the HEAD for the length, the two ways out.
OpenRangeProbe(file, env, error, contentLength1, reqs) ==
    LET reqs2 == Append(reqs, Req("probe", "GET", file, <<0, 0>>, env.g))
    IN  IF env.g.threw THEN Failed(reqs2)
        ELSE
        LET contentRange == env.g.contentRange
            contentLength2 == env.g.contentLength
            head2 == SendsSecondHead(file, contentRange)
            reqsH == IF head2
                     THEN Append(reqs2, Req("head2", "HEAD", file, <<0, -1>>, env.h2))
                     ELSE reqs2
        IN  IF head2 /\ env.h2.threw THEN Failed(reqsH)
            ELSE
            LET contentLength == IF head2 THEN env.h2.contentLength ELSE contentLength1
                presumedLength ==
                    IF contentRange # NoHeader THEN contentRange
                    ELSE IF head2 /\ contentLength # NoHeader /\ contentLength > 1
                    THEN contentLength
                    ELSE NoHeader
            IN  IF env.g.status = 206 /\ contentLength2 # NoHeader /\ contentLength2 = 1
                   /\ presumedLength # NoHeader
                THEN Opened(presumedLength, FALSE, <<>>, reqsH)
                ELSE IF env.g.status = 200 /\ contentLength2 # NoHeader
                        /\ contentLength # NoHeader /\ contentLength2 = contentLength
                THEN Opened(Len(env.g.body), TRUE, env.g.body, reqsH)
                ELSE OpenFullRead(file, env, error, reqsH)

\* openFile, HTTP and S3, FILE_FLAGS_READ alone: does the server support ranges?
OpenRemoteRead(file, env) ==
    LET head1 == SendsFirstHead(file)
        reqs1 == IF head1
                 THEN <<Req("head", "HEAD", file, <<0, -1>>, env.h1)>>
                 ELSE <<>>
        error == head1 /\ env.h1.threw
        contentLength == IF head1 /\ ~env.h1.threw THEN env.h1.contentLength ELSE NoHeader
    IN  IF head1 /\ ~env.h1.threw /\ contentLength # NoHeader /\ env.h1.status = 206
        THEN Opened(contentLength, FALSE, <<>>, reqs1)
        ELSE IF file.allowFullHttpReads
        THEN OpenRangeProbe(file, env, error, contentLength, reqs1)
        ELSE IF error THEN Failed(reqs1)
        ELSE Nothing(reqs1)

\* Mutant: a missing object is always created.
CreatesAlways(flags) == TRUE

\* `flags & FILE_FLAGS_FILE_CREATE || flags & FILE_FLAGS_FILE_CREATE_NEW`
Creates(flags) == "CREATE" \in flags \/ "CREATE_NEW" \in flags

\* Mutant: reading and writing at once is let through.
ReadAndWriteAllowed(flags) == FALSE

\* `flags & FILE_FLAGS_READ && flags & FILE_FLAGS_WRITE`
ReadAndWrite(flags) == "READ" \in flags /\ "WRITE" \in flags

\* openFile, HTTP and S3, FILE_FLAGS_WRITE: a HEAD tells whether the url can be
\* written; the result is a one-byte buffer nothing was copied into.
OpenRemoteWrite(file, flags, env) ==
    LET reqs == <<Req("whead", "HEAD", file, NoRange, env.h1)>>
    IN  IF env.h1.threw THEN Failed(reqs)
        ELSE IF env.h1.status # 200 /\ env.h1.status # 404 THEN Failed(reqs)
        ELSE IF env.h1.status = 404 /\ ~Creates(flags) THEN Failed(reqs)
        ELSE Opened(1, TRUE, <<env.junk>>, reqs)

\* Mutant: openFile does not ask for the session.
OpenOpfsUnchecked(handle) ==
    IF ~handle.present \/ ~handle.fileHandle \/ handle.file = NoSnapshot THEN Failed(<<>>)
    ELSE Opened(handle.file, FALSE, <<>>, <<>>)

\* openFile, OPFS: usable only with the handles and the session that
\* openFileAsync acquired; the size is the size of the File snapshot.
OpenOpfs(handle) ==
    IF ~handle.present \/ ~handle.fileHandle \/ handle.file = NoSnapshot THEN Failed(<<>>)
    ELSE IF handle.accessHandle = NoSession THEN Failed(<<>>)
    ELSE Opened(handle.file, FALSE, <<>>, <<>>)

\* Mutant: a file-reader file with no registered handle cannot be opened.
OpenReaderStrict(handle, junk) ==
    IF handle.present THEN Opened(Len(handle.blob), FALSE, <<>>, <<>>)
    ELSE Failed(<<>>)

\* openFile, file reader: the size of the registered handle and no buffer;
\* with no handle registered, size 1 and a buffer of one byte from malloc(1)
\* that nothing was written to.
OpenReader(handle, junk) ==
    IF handle.present THEN Opened(Len(handle.blob), FALSE, <<>>, <<>>)
    ELSE Opened(1, TRUE, <<junk>>, <<>>)

\* Mutant: an unhandled protocol gives the null result in silence.
OpenUnsupportedSilent == Nothing(<<>>)

\* openFile, `default:` of the switch (no record, or a protocol with no case):
\* 'Unsupported protocol for openFile' is thrown and caught.
OpenUnsupported == Failed(<<>>)

\* openFile after getFileInfo: the switch on file?.dataProtocol.
OpenFileOutcome(file, flags, env) ==
    IF file.present /\ IsRemote(file.dataProtocol)
    THEN IF ReadAndWrite(flags) THEN Failed(<<>>)
         ELSE IF "APPEND" \in flags THEN Failed(<<>>)
         ELSE IF "WRITE" \in flags THEN OpenRemoteWrite(file, flags, env)
         ELSE IF "READ" \notin flags THEN Failed(<<>>)
         ELSE OpenRemoteRead(file, env)
    ELSE IF file.present /\ file.dataProtocol = "BROWSER_FILEREADER"
    THEN OpenReader(files[file.fileName], env.junk)
    ELSE IF file.present /\ file.dataProtocol = "BROWSER_FSACCESS"
    THEN OpenOpfs(files[file.fileName])
    ELSE OpenUnsupported

\* Whether the call with outcome `out` sent the request of `step`.
Sent(step, out) == \E i \in 1..Len(out.reqs) : out.reqs[i].step = step

\* The answers the environment can give to openFile(file, flags).  A request
\* has an answer only if the call sends it: whether it does is read off the
\* call itself, run with the answers to the requests before it.
OpenEnvs(file, flags) ==
    LET obj == IF file.dataUrl \in DOMAIN remote THEN remote[file.dataUrl] ELSE <<>>
        Run(h1, g, h2, p) == OpenFileOutcome(file, flags, Env(h1, g, h2, p, 0))
        H1 == IF Sent("head", Run(NoResp, NoResp, NoResp, NoResp))
                 \/ Sent("whead", Run(NoResp, NoResp, NoResp, NoResp))
              THEN HeadResponses(obj) ELSE {NoResp}
        G(h1) == IF Sent("probe", Run(h1, NoResp, NoResp, NoResp))
                 THEN RangedGetResponses(obj, 0, 0) ELSE {NoResp}
        H2(h1, g) == IF Sent("head2", Run(h1, g, NoResp, NoResp))
                     THEN HeadResponses(obj) ELSE {NoResp}
        P(h1, g, h2) == IF Sent("full", Run(h1, g, h2, NoResp))
                        THEN PlainGetResponses(obj) ELSE {NoResp}
        J(h1, g, h2, p) ==
            IF \E j \in JunkBytes :
                   OpenFileOutcome(file, flags, Env(h1, g, h2, p, j)) # Run(h1, g, h2, p)
            THEN JunkBytes ELSE {0}
    IN  UNION { UNION { UNION { UNION { { Env(h1, g, h2, p, junk) : junk \in J(h1, g, h2, p) } :
                    p \in P(h1, g, h2) } : h2 \in H2(h1, g) } : g \in G(h1) } : h1 \in H1 }

\* ---------------------------------------------------------------- readFile
ReadOut(ret, fails, reqs, dst) == Outcome(ret, 0, FALSE, <<>>, fails, reqs, dst)

\* Mutant: no test for the empty read.
EmptyReadUnchecked(bytes) == FALSE

\* `if (bytes == 0) return 0;` before anything else.
EmptyRead(bytes) == bytes = 0

\* Mutant: the last byte of the range is one too far.
ReadRangeEndExclusive(bytes, location) == <<location, location + bytes>>

\* `Range: bytes=${location}-${location + bytes - 1}`
ReadRange(bytes, location) == <<location, location + bytes - 1>>

\* Mutant: readFile asks for the capability again before it reads.
ReadRequestsWithProbe(file, bytes, location, g) ==
    <<Req("head", "HEAD", file, <<0, -1>>, NoResp),
      Req("read", "GET", file, <<location, location + bytes - 1>>, g)>>

\* The requests of one readFile on a remote file: a single ranged GET.
ReadRequests(file, bytes, location, g) ==
    <<Req("read", "GET", file, ReadRange(bytes, location), g)>>

\* Mutant: every 200 is taken as the requested window.
AcceptedAnyOk(g, bytes, location) == g.status = 206 \/ g.status = 200

\* `xhr.status == 206 || (xhr.status == 200 && bytes == byteLength && location == 0)`
AcceptedDirectly(g, bytes, location) ==
    g.status = 206 \/ (g.status = 200 /\ bytes = Len(g.body) /\ location = 0)

\* `Math.min(xhr.response.byteLength - location, bytes)`, the length of the
\* window cut out of a full body.
WindowLength(g, bytes, location) == Min(Len(g.body) - location, bytes)

\* Mutant: a 206 body is copied whole, however long it is.
ReadRemoteUnclamped(file, bytes, location, g) ==
    LET reqs == ReadRequests(file, bytes, location, g)
    IN  IF file.dataUrl = "" THEN ReadOut(0, 1, <<>>, <<>>)
        ELSE IF g.threw THEN ReadOut(0, 1, reqs, <<>>)
        ELSE IF AcceptedDirectly(g, bytes, location)
        THEN ReadOut(Len(g.body), 0, reqs, g.body)
        ELSE IF g.status = 200
        THEN LET n == WindowLength(g, bytes, location)
             IN  IF ViewOk(g.body, location, n)
                 THEN ReadOut(n, 0, reqs, View(g.body, location, n))
                 ELSE ReadOut(0, 1, reqs, <<>>)
        ELSE ReadOut(0, 1, reqs, <<>>)

\* readFile, HTTP and S3: one ranged GET; g is the answer to it.  An exception
\* (a missing url, a network error, a view outside the body, another status)
\* ends in the catch: failWith and 0.
ReadRemote(file, bytes, location, g) ==
    LET reqs == ReadRequests(file, bytes, location, g)
    IN  IF file.dataUrl = "" THEN ReadOut(0, 1, <<>>, <<>>)
        ELSE IF g.threw THEN ReadOut(0, 1, reqs, <<>>)
        ELSE IF AcceptedDirectly(g, bytes, location)
        THEN LET src == View(g.body, 0, Min(Len(g.body), bytes))
             IN  ReadOut(Len(src), 0, reqs, src)
        ELSE IF g.status = 200
        THEN LET n == WindowLength(g, bytes, location)
             IN  IF ViewOk(g.body, location, n)
                 THEN ReadOut(n, 0, reqs, View(g.body, location, n))
                 ELSE ReadOut(0, 1, reqs, <<>>)
        ELSE ReadOut(0, 1, reqs, <<>>)

\* readFile, file reader: a slice of the registered blob.
ReadReader(file, bytes, location) ==
    IF ~files[file.fileName].present THEN ReadOut(0, 1, <<>>, <<>>)
    ELSE LET data == BlobSlice(files[file.fileName].blob, location, location + bytes)
         IN  ReadOut(Len(data), 0, <<>>, data)

\* readFile, OPFS: a zeroed array of `bytes` bytes is read into through the
\* session and copied whole to the destination; the count read is returned.
ReadOpfs(handle, bytes, location) ==
    IF ~AssertOPFSHandle(handle, TRUE) THEN ReadOut(0, 1, <<>>, <<>>)
    ELSE LET r == AccessRead(storage.bytes, bytes, location)
         IN  [ReadOut(r.num, 0, <<>>, r.data) EXCEPT
                  !.io = <<IoOp("read", handle.accessHandle)>>]

\* readFile after the empty-read test and getFileInfo: the switch on the protocol.
ReadFileOutcome(file, bytes, location, g) ==
    IF file.present /\ IsRemote(file.dataProtocol) THEN ReadRemote(file, bytes, location, g)
    ELSE IF file.present /\ file.dataProtocol = "BROWSER_FILEREADER"
    THEN ReadReader(file, bytes, location)
    ELSE IF file.present /\ file.dataProtocol = "BROWSER_FSACCESS"
    THEN ReadOpfs(files[file.fileName], bytes, location)
    ELSE ReadOut(0, 0, <<>>, <<>>)

\* readFile reads no response header: of the answers that differ in their
\* headers alone, the one with no header hidden stands for all.
HeadersUnread(r) ==
    \/ r.threw
    \/ r.status \notin {200, 206}
    \/ r.contentLength # NoHeader /\ (r.status = 206 => r.contentRange # NoHeader)

\* The answers the environment can give to readFile(file, bytes, location): the
\* server answers the range that was sent.
ReadEnvs(file, bytes, location) ==
    IF Sent("read", ReadFileOutcome(file, bytes, location, NoResp))
    THEN LET obj == IF file.dataUrl \in DOMAIN remote THEN remote[file.dataUrl] ELSE <<>>
             range == ReadFileOutcome(file, bytes, location, NoResp).reqs[1].range
         IN  { r \in RangedGetResponses(obj, range[1], range[2]) : HeadersUnread(r) }
    ELSE {NoResp}

\* ------------------------------------------------------------ truncateFile
\* truncateFile, OPFS: through the session; an exception ends in failWith.
TruncateOpfs(handle, newSize) ==
    IF ~AssertOPFSHandle(handle, TRUE) THEN ReadOut(0, 1, <<>>, <<>>)
    ELSE [ReadOut(0, 0, <<>>, <<>>) EXCEPT !.io = <<IoOp("truncate", handle.accessHandle)>>]

\* Mutant: truncating a remote file is passed on to the server.
TruncateRemoteSent(file) ==
    ReadOut(0, 0, <<Req("truncate", "PUT", file, NoRange, NoResp)>>, <<>>)

\* truncateFile, HTTP and S3: failWith and nothing else.
TruncateRemote(file) == ReadOut(0, 1, <<>>, <<>>)

\* Mutant: a file id that resolves to no record is reported as a failure.
TruncateFileOutcomeStrict(file, newSize) ==
    IF ~file.present THEN ReadOut(0, 1, <<>>, <<>>)
    ELSE IF IsRemote(file.dataProtocol) THEN TruncateRemote(file)
    ELSE ReadOut(0, 1, <<>>, <<>>)

\* truncateFile after getFileInfo: the switch on file?.dataProtocol.  It
\* returns nothing (0 here) except for a file it has no case for.
TruncateFileOutcome(file, newSize) ==
    IF file.present /\ IsRemote(file.dataProtocol) THEN TruncateRemote(file)
    ELSE IF file.present /\ file.dataProtocol \in {"BUFFER", "NODE_FS", "BROWSER_FILEREADER"}
    THEN ReadOut(0, 1, <<>>, <<>>)
    ELSE IF file.present /\ file.dataProtocol = "BROWSER_FSACCESS"
    THEN TruncateOpfs(files[file.fileName], newSize)
    ELSE ReadOut(0, 0, <<>>, <<>>)

\* --------------------------------------------------------------- writeFile
\* The bytes at `buf` the engine asks to write: `bytes` bytes that differ
\* from every byte of the objects at the start.
Input(bytes) == [i \in 1..bytes |-> 10 + i]

\* Answers to PUT: stored (200), refused (403), or the request dies in transport.
PutResponses ==
    { Threw,
      Resp("stored", 200, <<>>, NoHeader, NoHeader),
      Resp("error", 403, <<>>, NoHeader, NoHeader) }

\* Mutant: the PUT counts as done whatever the status of its answer.
WriteRemoteAnyStatus(file, input, put) ==
    LET reqs == <<[Req("put", "PUT", file, NoRange, put) EXCEPT !.sent = input]>>
    IN  IF put.threw THEN Raised(reqs)
        ELSE ReadOut(Len(input), 0, reqs, <<>>)

\* writeFile, S3: one PUT of the bytes to the url of the object, the offset
\* is not used; send is not inside a try.
WriteRemote(file, input, put) ==
    LET reqs == <<[Req("put", "PUT", file, NoRange, put) EXCEPT !.sent = input]>>
    IN  IF put.threw THEN Raised(reqs)
        ELSE IF put.status # 200 THEN ReadOut(0, 1, reqs, <<>>)
        ELSE ReadOut(Len(input), 0, reqs, <<>>)

\* Mutant: the file reader takes the bytes.
WriteReaderAccepted(input) == ReadOut(Len(input), 0, <<>>, <<>>)

\* writeFile, file reader: failWith and 0.
WriteReader(input) == ReadOut(0, 1, <<>>, <<>>)

\* writeFile, OPFS: through the session at `location`; the assertion is not
\* inside a try.
WriteOpfs(handle, input, location) ==
    IF ~AssertOPFSHandle(handle, TRUE) THEN Raised(<<>>)
    ELSE [ReadOut(Len(input), 0, <<>>, <<>>) EXCEPT
              !.io = <<IoOp("write", handle.accessHandle)>>]

\* writeFile after getFileInfo: 0 for no record, then the switch on the protocol.
WriteFileOutcome(file, input, location, put) ==
    IF ~file.present THEN ReadOut(0, 0, <<>>, <<>>)
    ELSE IF file.dataProtocol = "HTTP" THEN ReadOut(0, 1, <<>>, <<>>)
    ELSE IF file.dataProtocol = "S3" THEN WriteRemote(file, input, put)
    ELSE IF file.dataProtocol = "BROWSER_FILEREADER" THEN WriteReader(input)
    ELSE IF file.dataProtocol = "BROWSER_FSACCESS"
    THEN WriteOpfs(files[file.fileName], input, location)
    ELSE ReadOut(0, 0, <<>>, <<>>)

\* The answers the environment can give to writeFile(file, ...).
WriteEnvs(file, input, location) ==
    IF Sent("put", WriteFileOutcome(file, input, location, NoResp))
    THEN PutResponses ELSE {NoResp}

\* --------------------------------------------------------------- closeFile
\* duckdb_web_fs_get_file_info_by_name(fileName): an error status for a name
\* no file of the engine has, the serialised record otherwise.
EngineFileInfoByName(name) ==
    IF \E id \in DOMAIN engine : engine[id].present /\ engine[id].fileName = name
    THEN [s |-> "SUCCESS", n |-> 1,
          info |-> engine[CHOOSE id \in DOMAIN engine :
                              engine[id].present /\ engine[id].fileName = name]]
    ELSE [s |-> "ERROR", n |-> 0, info |-> NoFile]

\* getFileInfoByName(mod, fileName): null for no name, for an error status and
\* for an empty payload; the cache is neither read nor written.
GetFileInfoByName(name) ==
    IF name = "" THEN NoFile
    ELSE LET r == EngineFileInfoByName(name)
         IN  IF r.s # "SUCCESS" \/ r.n = 0 THEN NoFile ELSE r.info

\* Mutant: the session is closed without a flush.
CloseOutcomeUnflushed(file) ==
    IF file.dataProtocol = "BROWSER_FSACCESS"
    THEN LET handle == files[file.fileName]
         IN  IF ~handle.present THEN Raised(<<>>)
             ELSE IF handle.accessHandle # NoSession
             THEN [ReadOut(0, 0, <<>>, <<>>) EXCEPT
                       !.io = <<IoOp("close", handle.accessHandle)>>]
             ELSE ReadOut(0, 0, <<>>, <<>>)
    ELSE ReadOut(0, 0, <<>>, <<>>)

\* _closeFile(mod, file) after the cache entry was deleted: the switch on the
\* protocol.  Only OPFS has something to release: the session is flushed,
\* closed and forgotten.  Nothing catches the TypeError of a name that has no
\* entry in the registry.
CloseOutcome(file) ==
    IF file.dataProtocol = "BROWSER_FSACCESS"
    THEN LET handle == files[file.fileName]
         IN  IF ~handle.present THEN Raised(<<>>)
             ELSE IF handle.accessHandle # NoSession
             THEN [ReadOut(0, 0, <<>>, <<>>) EXCEPT
                       !.io = <<IoOp("flush", handle.accessHandle),
                                IoOp("close", handle.accessHandle)>>]
             ELSE ReadOut(0, 0, <<>>, <<>>)
    ELSE ReadOut(0, 0, <<>>, <<>>)

\* --------------------------------------------------------- openFileAsync
\* Where an openFileAsync call is: not running, or suspended at one of its
\* three awaits.  `overtaken` notes that a close of the file ran while the
\* call was suspended.
Awaits == {"getFileHandle", "getFile", "createSyncAccessHandle"}
Idle == [pc |-> "idle", id |-> 0, file |-> NoFile, overtaken |-> FALSE]
Awaiting(pc, file) == [pc |-> pc, id |-> file.fileId, file |-> file, overtaken |-> FALSE]

\* The calls in flight after _closeFile(mod, file) ran.
Overtaken(file) ==
    [k \in DOMAIN pending |->
        IF pending[k].pc \in Awaits /\ pending[k].file.fileName = file.fileName
        THEN [pending[k] EXCEPT !.overtaken = TRUE]
        ELSE pending[k]]

\* openFileAsync caught an exception: failWith, `return 1`.
AsyncFailed == [Failed(<<>>) EXCEPT !.ret = 1]

\* openFileAsync from `if (!handle.file)` on: the await it suspends at
\* ("done": it returns the size of the File snapshot).
AfterFileHandle(handle) ==
    IF handle.file = NoSnapshot THEN "getFile"
    ELSE IF handle.accessHandle = NoSession THEN "createSyncAccessHandle"
    ELSE "done"

\* openFileAsync from its start to its first await ("fail": it threw).
AsyncStart(file) ==
    IF ~file.present THEN "fail"
    ELSE IF file.dataProtocol # "BROWSER_FSACCESS" THEN "fail"
    ELSE LET handle == files[file.fileName]
         IN  IF ~handle.present THEN "fail"
             ELSE IF ~handle.fileHandle
             THEN IF ~handle.dirHandle THEN "fail" ELSE "getFileHandle"
             ELSE AfterFileHandle(handle)

\* ------------------------------------------------------------------ actions
\* A call of the engine into the runtime: the entry point, its arguments, the
\* file record getFileInfo resolved (NoFile when none was asked for or found)
\* and the outcome.
Call(op, id, flags, bytes, location, file, out) ==
    [op |-> op, id |-> id, flags |-> flags, bytes |-> bytes, location |-> location,
     file |-> file, out |-> out, input |-> <<>>, name |-> "", to |-> "",
     epoch |-> NoEpoch]

NoCall == Call("none", 0, {}, 0, 0, NoFile, ReadOut(0, 0, <<>>, <<>>))

\* The engine after openFile returned a result: it keeps the size; a result
\* that carries a buffer for a remote file opened for reading replaces the
\* remote reference, the file becomes an in-memory file and its metadata
\* epoch moves on.
EngineAdoptsBuffer(file, flags, out) ==
    file.present /\ IsRemote(file.dataProtocol) /\ "READ" \in flags
    /\ out.ret = 1 /\ out.hasBuf

OpenedAs(flags, out) ==
    [mode |-> IF "WRITE" \in flags THEN "write"
              ELSE IF out.hasBuf THEN "buffer" ELSE "range",
     size |-> out.size, buf |-> out.buf]

OpenFile(id, flags) ==
    LET gi == GetFileInfo([fileInfoCache EXCEPT ![id] = NoFile], id)
    IN  \E env \in OpenEnvs(gi.file, flags) :
            LET out == OpenFileOutcome(gi.file, flags, env)
            IN  /\ last' = Call("openFile", id, flags, 0, 0, gi.file, out)
                /\ fileInfoCache' = gi.cache
                /\ opened' = IF out.ret = 1
                             THEN [opened EXCEPT ![id] = OpenedAs(flags, out)]
                             ELSE opened
                /\ engine' = IF EngineAdoptsBuffer(gi.file, flags, out)
                             THEN [engine EXCEPT ![id].dataProtocol = "BUFFER",
                                                 ![id].cacheEpoch = @ + 1]
                             ELSE engine
                /\ UNCHANGED <<remote, files, storage, pending, engineGlobalInfo, globalFileInfo>>

ReadFile(id, bytes, location) ==
    IF EmptyRead(bytes)
    THEN /\ last' = Call("readFile", id, {}, bytes, location, NoFile, ReadOut(0, 0, <<>>, <<>>))
         /\ UNCHANGED <<engine, opened, remote, files, fileInfoCache, storage, pending,
                     engineGlobalInfo, globalFileInfo>>
    ELSE LET gi == GetFileInfo(fileInfoCache, id)
         IN  \E g \in ReadEnvs(gi.file, bytes, location) :
                 /\ last' = Call("readFile", id, {}, bytes, location, gi.file,
                                 ReadFileOutcome(gi.file, bytes, location, g))
                 /\ fileInfoCache' = gi.cache
                 /\ UNCHANGED <<engine, opened, remote, files, storage, pending,
                             engineGlobalInfo, globalFileInfo>>

\* A read the engine serves from the buffer it adopted: the runtime is not called.
BufferRead(id, bytes, location) ==
    /\ opened[id].mode = "buffer"
    /\ LET data == BlobSlice(opened[id].buf, location, location + bytes)
       IN  last' = Call("bufferRead", id, {}, bytes, location, NoFile,
                        ReadOut(Len(data), 0, <<>>, data))
    /\ UNCHANGED <<engine, opened, remote, files, fileInfoCache, storage, pending,
                     engineGlobalInfo, globalFileInfo>>

\* truncateFile(fileId, newSize).
TruncateFile(id, newSize) ==
    LET gi == GetFileInfo(fileInfoCache, id)
        out == TruncateFileOutcome(gi.file, newSize)
    IN  /\ last' = Call("truncateFile", id, {}, newSize, 0, gi.file, out)
        /\ fileInfoCache' = gi.cache
        /\ storage' = IF out.io # <<>>
                      THEN [storage EXCEPT !.bytes = AccessTruncate(@, newSize)]
                      ELSE storage
        /\ UNCHANGED <<engine, opened, remote, files, pending, engineGlobalInfo, globalFileInfo>>

\* writeFile(fileId, buf, bytes, location), the bytes at buf being Input(bytes).
\* A PUT answered 200 replaced the remote object by the bytes sent.
WriteFile(id, bytes, location) ==
    LET gi == GetFileInfo(fileInfoCache, id)
        input == Input(bytes)
    IN  \E put \in WriteEnvs(gi.file, input, location) :
            LET out == WriteFileOutcome(gi.file, input, location, put)
            IN  /\ last' = [Call("writeFile", id, {}, bytes, location, gi.file, out)
                               EXCEPT !.input = input]
                /\ fileInfoCache' = gi.cache
                /\ remote' = IF Sent("put", out) /\ put.status = 200
                             THEN [remote EXCEPT ![gi.file.dataUrl] = input]
                             ELSE remote
                /\ storage' = IF out.io # <<>>
                              THEN [storage EXCEPT !.bytes = AccessWrite(@, input, location)]
                              ELSE storage
                /\ UNCHANGED <<engine, opened, files, pending, engineGlobalInfo, globalFileInfo>>

\* _closeFile(mod, file), called by `op` with the cache `cache`: the cache entry
\* goes first, then the session if one is held.
CloseResolved(op, id, name, file, cache, ret) ==
    LET out == CloseOutcome(file)
        released == out.io # <<>>
        session == files[file.fileName].accessHandle
    IN  /\ last' = [Call(op, id, {}, 0, 0, file,
                         IF out.raised THEN out ELSE [out EXCEPT !.ret = ret])
                       EXCEPT !.name = name]
        /\ fileInfoCache' = [cache EXCEPT ![file.fileId] = NoFile]
        /\ files' = IF released
                    THEN [files EXCEPT ![file.fileName].accessHandle = NoSession]
                    ELSE files
        /\ storage' = IF released /\ storage.open = session
                      THEN [storage EXCEPT !.open = NoSession]
                      ELSE storage
        /\ pending' = Overtaken(file)
        /\ UNCHANGED <<engine, opened, remote, engineGlobalInfo, globalFileInfo>>

\* Mutant: every lookup is taken to have found a record.
UnresolvedNever(file) == FALSE

\* `if (!file)`: the lookup of the file to close found no record.
Unresolved(file) == ~file.present

\* A close that found no record: nothing is touched.
CloseUnresolved(op, id, name) ==
    /\ last' = [Call(op, id, {}, 0, 0, NoFile, ReadOut(0, 0, <<>>, <<>>)) EXCEPT !.name = name]
    /\ UNCHANGED <<engine, opened, remote, files, fileInfoCache, storage, pending,
                     engineGlobalInfo, globalFileInfo>>

\* closeFile(fileId).
CloseFile(id) ==
    LET gi == GetFileInfo(fileInfoCache, id)
    IN  IF Unresolved(gi.file) THEN CloseUnresolved("closeFile", id, "")
        ELSE CloseResolved("closeFile", id, "", gi.file, gi.cache, 0)

\* closeFileByName(fileName): false (0) for a name that resolves to no record,
\* true (1) after _closeFile.
CloseFileByName(name) ==
    LET file == GetFileInfoByName(name)
    IN  IF Unresolved(file) THEN CloseUnresolved("closeFileByName", 0, name)
        ELSE CloseResolved("closeFileByName", file.fileId, name, file, fileInfoCache, 1)

\* openFileAsync returns: the call in slot k is over.
AsyncReturns(k, id, file, out, registry) ==
    /\ last' = Call("openFileAsync", id, {}, 0, 0, file, out)
    /\ opened' = IF out.fails = 0
                 THEN [opened EXCEPT ![id] = OpenedAs({}, out)]
                 ELSE opened
    /\ pending' = [pending EXCEPT ![k] = Idle]
    /\ files' = registry

\* openFileAsync runs on to the await `next`, or returns.
AsyncGoesOn(k, id, file, next, registry) ==
    IF next = "fail" THEN AsyncReturns(k, id, file, AsyncFailed, registry)
    ELSE IF next = "done"
    THEN AsyncReturns(k, id, file,
                      Opened(registry[file.fileName].file, FALSE, <<>>, <<>>), registry)
    ELSE /\ pending' = [pending EXCEPT
                            ![k] = [Awaiting(next, file) EXCEPT !.overtaken = pending[k].overtaken]]
         /\ files' = registry
         /\ UNCHANGED <<opened, last>>

AsyncCalls == 1..MaxAsync

\* openFileAsync(fileId, flags) is called: it drops the cache entry, resolves
\* the record and runs to its first await.
OpenFileAsync(id) ==
    \E k \in DOMAIN pending :
        /\ pending[k].pc = "idle"
        /\ \A j \in DOMAIN pending : j < k => pending[j].pc # "idle"
        /\ LET gi == GetFileInfo([fileInfoCache EXCEPT ![id] = NoFile], id)
           IN  /\ fileInfoCache' = gi.cache
               /\ AsyncGoesOn(k, id, gi.file, AsyncStart(gi.file), files)
        /\ UNCHANGED <<engine, remote, storage, engineGlobalInfo, globalFileInfo>>

\* The promise the call in slot k awaits settles and the call runs on.
\* createSyncAccessHandle is rejected while a session is open on the file.
AsyncResumes(k) ==
    LET call == pending[k]
        name == call.file.fileName
    IN  /\ call.pc \in Awaits
        /\ UNCHANGED <<engine, remote, fileInfoCache, engineGlobalInfo, globalFileInfo>>
        /\ IF call.pc = "getFileHandle"
           THEN LET registry == [files EXCEPT ![name].fileHandle = TRUE]
                IN  /\ AsyncGoesOn(k, call.id, call.file, AfterFileHandle(registry[name]), registry)
                    /\ UNCHANGED storage
           ELSE IF call.pc = "getFile"
           THEN LET registry == [files EXCEPT ![name].file = Len(storage.bytes)]
                IN  /\ AsyncGoesOn(k, call.id, call.file, AfterFileHandle(registry[name]), registry)
                    /\ UNCHANGED storage
           ELSE IF storage.open # NoSession
           THEN /\ AsyncGoesOn(k, call.id, call.file, "fail", files)
                /\ UNCHANGED storage
           ELSE LET session == storage.created + 1
                    registry == [files EXCEPT ![name].accessHandle = session]
                IN  /\ storage.created < MaxSessions
                    /\ storage' = [storage EXCEPT !.created = session, !.open = session]
                    /\ AsyncGoesOn(k, call.id, call.file, "done", registry)

Protocols == RemoteProtocols \cup {"BROWSER_FILEREADER"}
\* "NONE": the engine does not know the id.
EngineRecords == Protocols \cup {"NONE"}

\* The state after construction: one file of protocol `proto` in the engine's
\* table, an object of n bytes behind it, `entry` in the registry under the
\* OPFS name, nothing cached, nothing opened, no call in flight.
Start(n, proto, reliable, allowFull, entry) ==
    /\ engine = [id \in FileIds |->
                    IF proto = "NONE" THEN NoFile
                    ELSE FileInfo(id, proto, 1, reliable, allowFull)]
    /\ opened = [id \in FileIds |-> NotOpened]
    /\ remote = [u \in {UrlOf(p) : p \in RemoteProtocols} |-> Body(n)]
    /\ files = [f \in {ReaderName, OpfsName} |->
                    IF f = ReaderName THEN ReaderHandle(Body(n)) ELSE entry]
    /\ fileInfoCache = [id \in FileIds |-> NoFile]
    /\ storage = [bytes |-> Body(n), created |-> 0, open |-> NoSession]
    /\ pending = [k \in AsyncCalls |-> Idle]
    /\ engineGlobalInfo = GlobalInfo(1, allowFull)
    /\ globalFileInfo = NoGlobal
    /\ last = NoCall

\* The file is remote, a file-reader file, or unknown to the engine.
Init ==
    \E n \in 0..MaxBody, proto \in EngineRecords, reliable \in BOOLEAN, allowFull \in BOOLEAN :
        /\ IsRemote(proto) \/ (reliable /\ allowFull)
        /\ Start(n, proto, reliable, allowFull, NoHandle)

Locations == 0..(MaxBody + MaxPast)
\* The names closeFileByName is called with: the names a file can have (the
\* file has one of them, no file has the others) and no name.
Names == {UrlOf("HTTP"), UrlOf("S3"), ReaderName, "nowhere", ""}

Next ==
    \/ \E id \in FileIds, flags \in OpenFlagSets : OpenFile(id, flags)
    \/ \E id \in FileIds, bytes \in 0..MaxBytes, location \in Locations :
           ReadFile(id, bytes, location)
    \/ \E id \in FileIds, bytes \in 1..MaxBytes, location \in Locations :
           BufferRead(id, bytes, location)

\* Opening and reading.
Spec == Init /\ [][Next]_vars

\* ------------------------------------------ writing, truncating and closing
\* The flags of an open that does not go down the ladder of the read open.
WriteFlagSets == OpenFlagSets \ {{"READ"}}

NextWrite ==
    \/ \E id \in FileIds, flags \in WriteFlagSets : OpenFile(id, flags)
    \/ \E id \in FileIds, newSize \in Locations : TruncateFile(id, newSize)
    \/ \E id \in FileIds, bytes \in 0..MaxBytes, location \in Locations :
           WriteFile(id, bytes, location)
    \/ \E id \in FileIds : CloseFile(id)
    \/ \E name \in Names : CloseFileByName(name)
    \/ \E id \in FileIds : OpenFileAsync(id)

\* Opening for writing, writing, truncating and closing.
SpecWrite == Init /\ [][NextWrite]_vars

\* ------------------------------------------------- the sandboxed-storage file
\* The entries the registry can hold for the OPFS file before it was ever
\* opened: none, or its name with or without a directory and a file handle.
OpfsEntries == {NoHandle, OpfsHandle(FALSE, FALSE), OpfsHandle(TRUE, FALSE), OpfsHandle(TRUE, TRUE)}

\* The file is a sandboxed-storage file.
InitOpfs ==
    \E n \in 0..MaxBody, entry \in OpfsEntries :
        Start(n, "BROWSER_FSACCESS", TRUE, TRUE, entry)

\* The calls on a sandboxed-storage file; openFile looks at no flag.
NextOpfs ==
    \/ \E id \in FileIds : OpenFileAsync(id)
    \/ \E k \in AsyncCalls : AsyncResumes(k)
    \/ \E id \in FileIds : OpenFile(id, {"READ"})
    \/ \E id \in FileIds, bytes \in 0..MaxBytes, location \in Locations :
           ReadFile(id, bytes, location)
    \/ \E id \in FileIds, newSize \in Locations : TruncateFile(id, newSize)
    \/ \E id \in FileIds, bytes \in 0..MaxBytes, location \in Locations :
           /\ location + bytes <= MaxBody + MaxPast
           /\ WriteFile(id, bytes, location)
    \/ \E id \in FileIds : CloseFile(id)
    \/ \E name \in {OpfsName, "nowhere"} : CloseFileByName(name)

SpecOpfs == InitOpfs /\ [][NextOpfs]_vars

\* ----------------------------------------------- the file-info cache
\* Largest cacheEpoch the engine reaches.
MaxEpoch == 2

\* A second file id of the engine, and the ids the engine hands out.
OtherId == 2
KnownIds == {FileId, OtherId}
\* Ids no file ever had: a negative one and one that is not a number.
InvalidIds == {-1, NotANumber}

\* The name of a second file registered for the url of the first.
AliasName == "alias.parquet"

\* The engine's record of file `id`: the first file as FileInfo has it, the
\* second under its own name.
Record(id, proto, allowFull) ==
    IF id = FileId THEN FileInfo(id, proto, 1, TRUE, allowFull)
    ELSE [FileInfo(id, proto, 1, TRUE, allowFull) EXCEPT !.fileName = AliasName]

\* getFileInfo(mod, fileId), called by itself.
GetFileInfoCalled(id) ==
    LET gi == GetFileInfo(fileInfoCache, id)
    IN  /\ last' = [Call("getFileInfo", id, {}, 0, 0, gi.file, ReadOut(0, 0, <<>>, <<>>))
                       EXCEPT !.epoch = gi.epoch]
        /\ fileInfoCache' = gi.cache
        /\ UNCHANGED <<engine, opened, remote, files, storage, pending, engineGlobalInfo,
                       globalFileInfo>>

\* The engine changes the metadata of a file (here: whether full reads are
\* allowed for it) and bumps the epoch of the record.
EngineChanges(id) ==
    /\ engine[id].present
    /\ engine[id].cacheEpoch < MaxEpoch
    /\ engine' = [engine EXCEPT ![id].allowFullHttpReads = ~@, ![id].cacheEpoch = @ + 1]
    /\ UNCHANGED <<opened, remote, files, fileInfoCache, storage, pending, engineGlobalInfo,
                   globalFileInfo, last>>

\* The engine forgets a file: from now on its lookups of the id fail.
EngineDrops(id) ==
    /\ engine[id].present
    /\ engine' = [engine EXCEPT ![id] = NoFile]
    /\ UNCHANGED <<opened, remote, files, fileInfoCache, storage, pending, engineGlobalInfo,
                   globalFileInfo, last>>

\* Two file ids: each is a remote file, a file-reader file (the first id
\* alone) or unknown to the engine.
InitInfo ==
    \E proto1 \in EngineRecords, proto2 \in RemoteProtocols \cup {"NONE"} :
        /\ engine = [id \in KnownIds |->
                        LET proto == IF id = FileId THEN proto1 ELSE proto2
                        IN  IF proto = "NONE" THEN NoFile ELSE Record(id, proto, TRUE)]
        /\ opened = [id \in KnownIds |-> NotOpened]
        /\ remote = [u \in {UrlOf(p) : p \in RemoteProtocols} |-> Body(MaxBody)]
        /\ files = [f \in {ReaderName, OpfsName} |->
                        IF f = ReaderName THEN ReaderHandle(Body(MaxBody)) ELSE NoHandle]
        /\ fileInfoCache = [id \in KnownIds |-> NoFile]
        /\ storage = [bytes |-> <<>>, created |-> 0, open |-> NoSession]
        /\ pending = [k \in AsyncCalls |-> Idle]
        /\ engineGlobalInfo = GlobalInfo(1, TRUE)
        /\ globalFileInfo = NoGlobal
        /\ last = NoCall

AnyIds == KnownIds \cup InvalidIds

NextInfo ==
    \/ \E id \in AnyIds : GetFileInfoCalled(id)
    \/ \E id \in KnownIds : EngineChanges(id)
    \/ \E id \in KnownIds : EngineDrops(id)
    \/ \E id \in AnyIds : CloseFile(id)
    \/ \E id \in AnyIds, bytes \in 0..1 : ReadFile(id, bytes, 0)
    \/ \E id \in AnyIds, bytes \in 0..1 : WriteFile(id, bytes, 0)
    \/ \E id \in AnyIds : TruncateFile(id, 0)

\* Resolving file ids while the engine changes and forgets files.
SpecInfo == InitInfo /\ [][NextInfo]_vars

\* ------------------------------------------------- checkFile, glob, moveFile
\* The paths checkFile, glob and moveFile are called with: the urls of the
\* remote objects, an https url, the names of the local files, the name of a
\* local file that begins with "http", and a name nothing is registered under.
HttpsUrl == "https://host/a"
HttpLikeName == "httpd.log"
MovedName == "moved.csv"
Paths == {UrlOf("HTTP"), UrlOf("S3"), HttpsUrl, ReaderName, OpfsName, HttpLikeName, MovedName}

\* path.startsWith(prefix), for the paths above and the prefixes the code asks for.
StartsWith(path, prefix) ==
    prefix \in (IF path = UrlOf("HTTP") THEN {"http", "http://"}
                ELSE IF path = HttpsUrl THEN {"http", "https://"}
                ELSE IF path = UrlOf("S3") THEN {"s3://"}
                ELSE IF path = HttpLikeName THEN {"http"}
                ELSE {})

\* A request sent for a path (not for a file record): `sig` is the method
\* addS3Headers was called with ("none": it was not called).
PathReq(step, method, path, sig, range, resp) ==
    [Req(step, method, [NoFile EXCEPT !.dataUrl = path], range, resp) EXCEPT !.sig = sig]

\* The object behind a path, for the answers of the environment.
ObjectAt(path) == IF path \in DOMAIN remote THEN remote[path] ELSE <<>>

\* Mutant: an empty local file always counts as absent.
CheckLocalEmptyIsAbsent(handle) ==
    IF handle.file = 0 THEN 0 ELSE 1

\* checkFile with a registry entry: false (0) for an empty File snapshot of an
\* entry registered emptyAsAbsent, true (1) otherwise.
CheckLocal(handle) ==
    LET isEmpty == handle.file = 0
    IN  IF isEmpty /\ handle.emptyAsAbsent THEN 0 ELSE 1

\* `path.startsWith('http://') || path.startsWith('https://') || path.startsWith('s3://')`
IsRemoteUrl(path) ==
    StartsWith(path, "http://") \/ StartsWith(path, "https://") \/ StartsWith(path, "s3://")

\* Mutant: any answer of the server counts as existence.
CheckRemoteAnyAnswer(path, head) ==
    LET sig == IF StartsWith(path, "s3://") THEN "HEAD" ELSE "none"
        reqs == <<PathReq("check", "HEAD", path, sig, NoRange, head)>>
    IN  IF head.threw THEN ReadOut(0, 0, reqs, <<>>) ELSE ReadOut(1, 0, reqs, <<>>)

\* checkFile, remote url without registry entry: one HEAD, true for 200 and
\* 206; the catch turns an exception into false.
CheckRemote(path, head) ==
    LET sig == IF StartsWith(path, "s3://") THEN "HEAD" ELSE "none"
        reqs == <<PathReq("check", "HEAD", path, sig, NoRange, head)>>
    IN  IF head.threw THEN ReadOut(0, 0, reqs, <<>>)
        ELSE IF head.status = 206 \/ head.status = 200 THEN ReadOut(1, 0, reqs, <<>>)
        ELSE ReadOut(0, 0, reqs, <<>>)

\* checkFile(path) with the answer `head` to its HEAD.
CheckFileOutcome(path, head) ==
    LET handle == files[path]
    IN  IF handle.present THEN ReadOut(CheckLocal(handle), 0, <<>>, <<>>)
        ELSE IF IsRemoteUrl(path) THEN CheckRemote(path, head)
        ELSE ReadOut(0, 0, <<>>, <<>>)

\* `path.startsWith('http') || path.startsWith('s3://')`
GlobProbes(path) == StartsWith(path, "http") \/ StartsWith(path, "s3://")

Reachable(resp) == resp.status = 200 \/ resp.status = 206

\* Mutant: the path is registered whatever the probes said.
GlobOutcomeUnprobed(path, allowFull, head, get) ==
    IF ~GlobProbes(path) THEN ReadOut(0, 0, <<>>, <<>>)
    ELSE [ReadOut(0, 0, <<PathReq("head", "HEAD", path, "none", NoRange, head)>>, <<>>)
             EXCEPT !.added = <<path>>]

\* glob(path) with the global allowFullHttpReads and the answers to its HEAD
\* and to its one-byte ranged GET: the path is handed to
\* duckdb_web_fs_glob_add_path when a probe was answered 200 or 206.  The
\* headers of the GET to S3 are computed for 'HEAD'.
GlobOutcome(path, allowFull, head, get) ==
    IF ~GlobProbes(path) THEN ReadOut(0, 0, <<>>, <<>>)
    ELSE
        LET s3 == StartsWith(path, "s3://")
            reqs1 == <<PathReq("head", "HEAD", path, IF s3 THEN "HEAD" ELSE "none",
                               NoRange, head)>>
            reqs2 == Append(reqs1, PathReq("probe", "GET", path, IF s3 THEN "HEAD" ELSE "none",
                                           <<0, 0>>, get))
        IN  IF head.threw THEN ReadOut(0, 1, reqs1, <<>>)
            ELSE IF Reachable(head) THEN [ReadOut(0, 0, reqs1, <<>>) EXCEPT !.added = <<path>>]
            ELSE IF ~allowFull THEN ReadOut(0, 1, reqs1, <<>>)
            ELSE IF get.threw THEN ReadOut(0, 1, reqs2, <<>>)
            ELSE IF ~Reachable(get) THEN ReadOut(0, 1, reqs2, <<>>)
            ELSE [ReadOut(0, 0, reqs2, <<>>) EXCEPT !.added = <<path>>]

\* checkFile(path).  getGlobalFileInfo is called for an s3 url that is probed.
CheckFile(path) ==
    \E head \in (IF Sent("check", CheckFileOutcome(path, NoResp))
                 THEN HeadResponses(ObjectAt(path)) ELSE {NoResp}) :
        LET out == CheckFileOutcome(path, head)
        IN  /\ last' = [Call("checkFile", 0, {}, 0, 0, NoFile, out) EXCEPT !.name = path]
            /\ globalFileInfo' = IF out.reqs # <<>> /\ StartsWith(path, "s3://")
                                 THEN GetGlobalFileInfo(globalFileInfo).cached
                                 ELSE globalFileInfo
            /\ UNCHANGED <<engine, opened, remote, files, fileInfoCache, storage, pending,
                           engineGlobalInfo>>

\* glob(path).  getGlobalFileInfo is called for the s3 config and, after a
\* HEAD that was answered with a failure, for allowFullHttpReads.
Glob(path) ==
    LET gg == GetGlobalFileInfo(globalFileInfo)
        allowFull == gg.info.present /\ gg.info.allowFullHttpReads
    IN  \E head \in (IF Sent("head", GlobOutcome(path, allowFull, NoResp, NoResp))
                     THEN HeadResponses(ObjectAt(path)) ELSE {NoResp}) :
        \E get \in (IF Sent("probe", GlobOutcome(path, allowFull, head, NoResp))
                    THEN RangedGetResponses(ObjectAt(path), 0, 0) ELSE {NoResp}) :
            LET out == GlobOutcome(path, allowFull, head, get)
                asked == StartsWith(path, "s3://") \/ (Len(out.reqs) >= 1 /\ ~head.threw
                                                         /\ ~Reachable(head))
            IN  /\ last' = [Call("glob", 0, {}, 0, 0, NoFile, out) EXCEPT !.name = path]
                /\ globalFileInfo' = IF asked THEN gg.cached ELSE globalFileInfo
                /\ UNCHANGED <<engine, opened, remote, files, fileInfoCache, storage, pending,
                               engineGlobalInfo>>

\* moveFile, the registry: `_files.delete(handle)` looks for the handle among
\* the keys, which are names, and removes nothing; the handle is then set
\* under `to`.
MovedRegistry(handle, from, to) ==
    IF handle.present THEN [files EXCEPT ![to] = handle] ELSE files

\* The cached records moveFile looks for: those located at `from`.
CachedAt(from) ==
    {id \in DOMAIN fileInfoCache : fileInfoCache[id].present /\ fileInfoCache[id].dataUrl = from}

\* moveFile(from, to): the registry, then the cache: the loop deletes the first
\* record located at `from` and breaks (the first in the order of insertion;
\* the model keeps no order, so any of them).  Returns true.
MoveFile(from, to) ==
    /\ last' = [Call("moveFile", 0, {}, 0, 0, NoFile, ReadOut(1, 0, <<>>, <<>>))
                   EXCEPT !.name = from, !.to = to]
    /\ files' = MovedRegistry(files[from], from, to)
    /\ IF CachedAt(from) = {} THEN fileInfoCache' = fileInfoCache
       ELSE \E id \in CachedAt(from) : fileInfoCache' = [fileInfoCache EXCEPT ![id] = NoFile]
    /\ UNCHANGED <<engine, opened, remote, storage, pending, engineGlobalInfo, globalFileInfo>>

\* The engine's configuration changes (here: whether full HTTP reads are
\* allowed) and the epoch of the global file info is bumped.
EngineConfigChanges ==
    /\ engineGlobalInfo.cacheEpoch < MaxEpoch
    /\ engineGlobalInfo' = [engineGlobalInfo EXCEPT !.allowFullHttpReads = ~@,
                                                    !.cacheEpoch = @ + 1]
    /\ UNCHANGED <<engine, opened, remote, files, fileInfoCache, storage, pending,
                   globalFileInfo, last>>

\* An OPFS entry as an earlier pre-open and close left it: the File snapshot
\* has the size the file had then, no session is held.
SnapshotSizes == {NoSnapshot, 0, MaxBody}
OpfsEntryLeft(snapshot, emptyAsAbsent) ==
    [OpfsHandle(TRUE, snapshot # NoSnapshot) EXCEPT
        !.file = snapshot, !.emptyAsAbsent = emptyAsAbsent]

\* The state after construction for the calls by path: file `proto1` and, when
\* `proto2` is not "NONE", a second file registered for the same kind of url;
\* in the registry a file-reader blob, the OPFS entry `entry` and `under`
\* under the url of the HTTP object.
StartPaths(proto1, proto2, entry, under) ==
    /\ engine = [id \in KnownIds |->
                    LET proto == IF id = FileId THEN proto1 ELSE proto2
                    IN  IF proto = "NONE" THEN NoFile ELSE Record(id, proto, TRUE)]
    /\ opened = [id \in KnownIds |-> NotOpened]
    /\ remote = [u \in {UrlOf(p) : p \in RemoteProtocols} |-> Body(MaxBody)]
    /\ files = [f \in Paths |->
                    IF f = ReaderName THEN ReaderHandle(Body(MaxBody))
                    ELSE IF f = OpfsName THEN entry
                    ELSE IF f = UrlOf("HTTP") THEN under
                    ELSE NoHandle]
    /\ fileInfoCache = [id \in KnownIds |-> NoFile]
    /\ storage = [bytes |-> <<>>, created |-> 0, open |-> NoSession]
    /\ pending = [k \in AsyncCalls |-> Idle]
    /\ engineGlobalInfo = GlobalInfo(1, TRUE)
    /\ globalFileInfo = NoGlobal
    /\ last = NoCall

\* The registry holds an OPFS entry with or without a File snapshot, and
\* with or without a blob registered under the url of the HTTP object.
InitPaths ==
    \E snapshot \in SnapshotSizes, emptyAsAbsent \in BOOLEAN,
       under \in {NoHandle, ReaderHandle(<<>>)} :
        StartPaths("HTTP", "NONE", OpfsEntryLeft(snapshot, emptyAsAbsent), under)

NextPaths ==
    \/ \E path \in Paths : CheckFile(path)
    \/ \E path \in Paths : Glob(path)
    \/ EngineConfigChanges

\* Existence checks and glob.
SpecPaths == InitPaths /\ [][NextPaths]_vars

\* The names moveFile moves to: a free name, a registered name and a url.
Targets == {MovedName, ReaderName, UrlOf("HTTP")}

\* One or two files at the same kind of url.
InitMove ==
    \E proto1 \in RemoteProtocols, second \in BOOLEAN :
        StartPaths(proto1, IF second THEN proto1 ELSE "NONE",
                   OpfsEntryLeft(MaxBody, FALSE), NoHandle)

NextMove ==
    \/ \E id \in KnownIds : GetFileInfoCalled(id)
    \/ \E from \in Paths, to \in Targets : MoveFile(from, to)

\* Moving files whose records are cached.
SpecMove == InitMove /\ [][NextMove]_vars

\* ------------------------------------------- interleaved openFileAsync calls
\* The openFileAsync calls that can be in flight together.
Interleaved == 1..(MaxAsync + 1)

\* A sandboxed-storage file that is registered with its directory, with or
\* without a file handle; no call in flight.
InitAsync ==
    \E fileHandle \in BOOLEAN :
        /\ engine = [id \in FileIds |-> FileInfo(id, "BROWSER_FSACCESS", 1, TRUE, TRUE)]
        /\ opened = [id \in FileIds |-> NotOpened]
        /\ remote = [u \in {UrlOf(p) : p \in RemoteProtocols} |-> Body(MaxBody)]
        /\ files = [f \in {ReaderName, OpfsName} |->
                        IF f = ReaderName THEN ReaderHandle(Body(MaxBody))
                        ELSE OpfsHandle(TRUE, fileHandle)]
        /\ fileInfoCache = [id \in FileIds |-> NoFile]
        /\ storage = [bytes |-> Body(MaxBody), created |-> 0, open |-> NoSession]
        /\ pending = [k \in Interleaved |-> Idle]
        /\ engineGlobalInfo = GlobalInfo(1, TRUE)
        /\ globalFileInfo = NoGlobal
        /\ last = NoCall

NextAsync ==
    \/ \E id \in FileIds : OpenFileAsync(id)
    \/ \E k \in Interleaved : AsyncResumes(k)
    \/ \E id \in FileIds : CloseFile(id)

\* openFileAsync calls that overlap each other and closeFile.
SpecAsync == InitAsync /\ [][NextAsync]_vars

\* ------------------------------------------------ files of every backing kind
\* The data protocols a file record can carry; openFile and readFile handle
\* the first four.
BackingKinds == RemoteProtocols \cup {"BROWSER_FILEREADER", "BROWSER_FSACCESS", "BUFFER", "NODE_FS"}

\* A file of any backing kind, or no file (the engine does not know the id);
\* a local file is registered under its name or it is not.
InitKinds ==
    \E n \in 0..MaxBody, proto \in BackingKinds \cup {"NONE"}, registered \in BOOLEAN :
        /\ (IsRemote(proto) \/ proto \in {"BUFFER", "NODE_FS", "NONE"}) => registered
        /\ engine = [id \in FileIds |->
                        IF proto = "NONE" THEN NoFile ELSE FileInfo(id, proto, 1, TRUE, TRUE)]
        /\ opened = [id \in FileIds |-> NotOpened]
        /\ remote = [u \in {UrlOf(p) : p \in RemoteProtocols} |-> Body(n)]
        /\ files = [f \in {ReaderName, OpfsName} |->
                        IF ~registered THEN NoHandle
                        ELSE IF f = ReaderName THEN ReaderHandle(Body(n))
                        ELSE OpfsHandle(TRUE, TRUE)]
        /\ fileInfoCache = [id \in FileIds |-> NoFile]
        /\ storage = [bytes |-> Body(n), created |-> 0, open |-> NoSession]
        /\ pending = [k \in AsyncCalls |-> Idle]
        /\ engineGlobalInfo = GlobalInfo(1, TRUE)
        /\ globalFileInfo = NoGlobal
        /\ last = NoCall

NextKinds ==
    \/ \E id \in FileIds : GetFileInfoCalled(id)
    \/ \E id \in FileIds : OpenFile(id, {"READ"})
    \/ \E id \in FileIds : OpenFileAsync(id)
    \/ \E k \in AsyncCalls : AsyncResumes(k)
    \/ \E id \in FileIds, bytes \in 0..MaxBytes, location \in Locations :
           ReadFile(id, bytes, location)

\* Opening and reading files of every backing kind.
SpecKinds == InitKinds /\ [][NextKinds]_vars

\* ------------------------------------------------------------------ claims
Reqs == last.out.reqs
CountReqs(P(_)) == Cardinality({i \in 1..Len(Reqs) : P(Reqs[i])})
IsRangedHead(r) == r.method = "HEAD" /\ r.range = <<0, -1>>
IsOneByteGet(r) == r.method = "GET" /\ r.range = <<0, 0>>
IsPlainGet(r) == r.method = "GET" /\ r.range = NoRange
IsDiscovery(r) == r.step \in {"head", "probe", "head2"}
IsWhole(r) == r.whole

\* The last call was openFile for reading on a remote file.
OpenForRead ==
    /\ last.op = "openFile" /\ last.flags = {"READ"}
    /\ last.file.present /\ IsRemote(last.file.dataProtocol)

\* The last call was a readFile of at least one byte on a remote file.
RemoteRead ==
    /\ last.op = "readFile" /\ last.bytes >= 1
    /\ last.file.present /\ IsRemote(last.file.dataProtocol)

\* The remote object the last call was about.
Object == remote[last.file.dataUrl]

\* The bytes of `obj` that exist in [location, location + bytes).
Available(obj, location, bytes) == BlobSlice(obj, location, location + bytes)

\* C1: readFile with bytes = 0 returns 0, sends no request, resolves no file
\* record and touches no handle, copies nothing and calls failWith never,
\* whatever the file's protocol and the state of the cache and the registry.
C1_EmptyReadIsFree ==
    (last.op = "readFile" /\ last.bytes = 0)
        => /\ last.out.ret = 0
           /\ last.out.reqs = <<>>
           /\ last.out.fails = 0
           /\ last.out.dst = <<>>
           /\ last.file = NoFile

C1_Witness ==
    /\ last.op = "readFile" /\ last.bytes = 0
    /\ IsRemote(engine[last.id].dataProtocol)
    /\ fileInfoCache[last.id].present

\* C2 as stated: on a remote file whose server honours range requests, readFile
\* of n bytes at offset with offset + n <= size sends one GET with Range
\* bytes=offset..offset+n-1, copies the n bytes at [offset, offset+n) and
\* returns n.
C2_Original ==
    (/\ last.op = "readFile"
     /\ engine[last.id].present /\ IsRemote(engine[last.id].dataProtocol)
     /\ last.location + last.bytes <= Len(remote[engine[last.id].dataUrl])
     /\ \A i \in 1..Len(Reqs) : Reqs[i].mode = "honours")
        => /\ Len(Reqs) = 1
           /\ Reqs[1].method = "GET"
           /\ Reqs[1].range = <<last.location, last.location + last.bytes - 1>>
           /\ last.out.dst = Available(remote[engine[last.id].dataUrl], last.location, last.bytes)
           /\ last.out.ret = last.bytes

\* C2, amended: the same for n >= 1 (a read of no byte sends no request).
C2_RangedReadExact ==
    (/\ RemoteRead
     /\ last.location + last.bytes <= Len(Object)
     /\ \A i \in 1..Len(Reqs) : Reqs[i].mode = "honours")
        => /\ Len(Reqs) = 1
           /\ Reqs[1].method = "GET"
           /\ Reqs[1].range = <<last.location, last.location + last.bytes - 1>>
           /\ last.out.dst = SubSeq(Object, last.location + 1, last.location + last.bytes)
           /\ last.out.ret = last.bytes
           /\ last.out.fails = 0

C2_Witness ==
    /\ RemoteRead /\ last.location >= 1 /\ last.location + last.bytes <= Len(Object)
    /\ Len(Reqs) = 1 /\ Reqs[1].status = 206
    /\ last.out.ret = last.bytes

\* C3: a read of a remote file that reaches or passes the end of the object,
\* answered with partial content or with the full body, never fails and
\* returns the number of bytes that exist in [offset, offset + length).
C3_ReadPastEndNeverFails ==
    (RemoteRead /\ Len(Reqs) = 1 /\ Reqs[1].status \in {200, 206})
        => /\ last.out.fails = 0
           /\ last.out.ret = Len(Available(Object, last.location, last.bytes))

\* C4: with full reads allowed and a server that does not support ranges (it
\* answers every request with 200), openFile transfers the whole object
\* exactly once and returns it as a buffer, and every later read of the file
\* sends no request.
C4_OneWholeFetch ==
    /\ (/\ OpenForRead /\ last.file.allowFullHttpReads
        /\ \A i \in 1..Len(Reqs) : Reqs[i].status = 200)
           => /\ CountReqs(IsWhole) = 1
              /\ last.out.ret = 1 /\ last.out.hasBuf
    /\ (last.op \in {"readFile", "bufferRead"} /\ opened[last.id].mode = "buffer")
           => Reqs = <<>>

\* C5: when the server answers a ranged read with 200 and the full body, the
\* bytes readFile copies are body[location, location + min(bodyLength -
\* location, bytes)), nothing when that length is not positive, and the
\* count returned is the number of bytes copied.
C5_WindowOfFullBody ==
    (RemoteRead /\ Len(Reqs) = 1 /\ Reqs[1].status = 200)
        => LET n == Min(Len(Object) - last.location, last.bytes)
               window == IF n <= 0 THEN <<>>
                         ELSE SubSeq(Object, last.location + 1, last.location + n)
           IN  /\ last.out.dst = window
               /\ last.out.ret = Len(window)

C5_Witness ==
    /\ RemoteRead /\ Len(Reqs) = 1 /\ Reqs[1].status = 200
    /\ last.location >= 1 /\ last.out.ret >= 1
    /\ last.location + last.bytes > Len(Object)

\* C6: openFile for reading on a remote file returns the null result only
\* after every ladder step was tried or with the fallback disallowed, and
\* never without a call of failWith.
C6_NullOpenSignalsFailure ==
    (OpenForRead /\ last.out.ret = 0)
        => /\ last.out.fails >= 1
           /\ ~last.file.allowFullHttpReads \/ Sent("full", last.out)

\* C7: a discovery request that dies in transport does not end the open: with
\* the fallback allowed the ladder goes on to its last step (the unranged
\* GET) unless a step before it succeeded.
C7_ProbeFailureNotSurfaced ==
    (/\ OpenForRead /\ last.file.allowFullHttpReads
     /\ \E i \in 1..Len(Reqs) : IsDiscovery(Reqs[i]) /\ Reqs[i].threw)
        => last.out.ret = 1 \/ Sent("full", last.out)

\* C8: one openFile sends the ranged HEAD at most once, the one-byte ranged GET
\* at most once and the unranged GET at most once, whatever the flags of the
\* file and the answers; one readFile sends at most one request.
C8_EachRequestAtMostOnce ==
    /\ last.op = "openFile"
           => /\ CountReqs(IsRangedHead) <= 1
              /\ CountReqs(IsOneByteGet) <= 1
              /\ CountReqs(IsPlainGet) <= 1
    /\ last.op = "readFile" => Len(Reqs) <= 1

C8_Witness ==
    /\ OpenForRead /\ last.out.ret = 1
    /\ CountReqs(IsRangedHead) = 1 /\ CountReqs(IsOneByteGet) = 1 /\ CountReqs(IsPlainGet) = 1

C10_Plain200NotUnsupported ==
    (/\ OpenForRead /\ Len(Reqs) >= 1
     /\ Reqs[1].step = "head" /\ Reqs[1].status = 200
     /\ \A i \in 2..Len(Reqs) : Reqs[i].range # NoRange => Reqs[i].mode = "honours")
        => last.out.ret = 1 /\ ~last.out.hasBuf

\* The last call was openFile on a remote file.
RemoteOpen ==
    last.op = "openFile" /\ last.file.present /\ IsRemote(last.file.dataProtocol)

\* C11: openFile on a remote file with READ and WRITE both set, or with APPEND
\* set, returns the null result after one failWith and sends no request,
\* whatever the other flags are.
C11_ReadWriteAndAppendRejected ==
    (/\ RemoteOpen
     /\ ("READ" \in last.flags /\ "WRITE" \in last.flags) \/ "APPEND" \in last.flags)
        => /\ last.out.ret = 0
           /\ last.out.fails = 1
           /\ Reqs = <<>>

C11_Witness ==
    /\ RemoteOpen /\ last.flags = {"READ", "WRITE"}
    /\ last.out.fails = 1 /\ Reqs = <<>>

\* C12: openFile on a remote file with WRITE, without READ and APPEND, sends
\* one HEAD and nothing else; it returns a result exactly when the status is
\* 200, or 404 with CREATE or CREATE_NEW among the flags, and otherwise it
\* returns the null result after one failWith.
C12_WriteOpenProbesOnce ==
    (/\ RemoteOpen
     /\ "WRITE" \in last.flags /\ "READ" \notin last.flags /\ "APPEND" \notin last.flags)
        => /\ Len(Reqs) = 1
           /\ Reqs[1].method = "HEAD"
           /\ last.out.ret = 1
                  <=> \/ Reqs[1].status = 200
                      \/ /\ Reqs[1].status = 404
                         /\ "CREATE" \in last.flags \/ "CREATE_NEW" \in last.flags
           /\ last.out.ret # 1 => (last.out.ret = 0 /\ last.out.fails = 1)

C12_Witness ==
    /\ RemoteOpen /\ last.flags = {"WRITE", "CREATE"}
    /\ Len(Reqs) = 1 /\ Reqs[1].status = 404 /\ last.out.ret = 1

\* What getFileInfo can do to the cache on the way into a call: nothing, or
\* the entry of the file replaced by the engine's current record.
CacheOnlyRefreshed ==
    \/ fileInfoCache' = fileInfoCache
    \/ /\ last'.id \in FileIds
       /\ fileInfoCache' = [fileInfoCache EXCEPT ![last'.id] = engine[last'.id]]

\* C13 as stated: truncateFile on a remote file calls failWith, sends no
\* request and leaves the remote object, the file-info cache and the registry
\* as they were.
C13_Original ==
    [][ (/\ last'.op = "truncateFile"
         /\ last'.file.present /\ IsRemote(last'.file.dataProtocol))
            => /\ last'.out.fails = 1
               /\ last'.out.reqs = <<>>
               /\ remote' = remote
               /\ fileInfoCache' = fileInfoCache
               /\ files' = files ]_vars

\* C13, amended: truncateFile on a remote file calls failWith once, sends no
\* request, reaches no session and leaves the remote object, the registry and
\* the sandboxed storage as they were; in the file-info cache the entry of the
\* file may be replaced by the engine's current record, nothing else changes.
C13_TruncateRemoteRejected ==
    [][ (/\ last'.op = "truncateFile"
         /\ last'.file.present /\ IsRemote(last'.file.dataProtocol))
            => /\ last'.out.fails = 1
               /\ last'.out.ret = 0
               /\ ~last'.out.raised
               /\ last'.out.reqs = <<>>
               /\ last'.out.io = <<>>
               /\ remote' = remote
               /\ files' = files
               /\ storage' = storage
               /\ CacheOnlyRefreshed ]_vars

C13_Witness ==
    /\ last.op = "truncateFile" /\ last.file.dataProtocol = "S3"
    /\ last.out.fails = 1 /\ last.out.reqs = <<>>
    /\ fileInfoCache[last.id].present

\* C14: writeFile on a remote file (HTTP or S3) sends one PUT that carries the
\* bytes written, and when the PUT is answered 200 it returns the number of
\* bytes written without a failure; so it does on a file that openFile opened
\* for writing.
C14_RemoteWritePuts ==
    (/\ last.op = "writeFile"
     /\ last.file.present /\ IsRemote(last.file.dataProtocol))
        => /\ Len(Reqs) = 1
           /\ Reqs[1].method = "PUT"
           /\ Reqs[1].range = NoRange
           /\ Reqs[1].sent = last.input
           /\ Reqs[1].status = 200 => (last.out.ret = last.bytes /\ last.out.fails = 0)

\* C15 as stated: writeFile and truncateFile on a file-reader file call
\* failWith, return 0 and leave the registry and the caches as they were.
C15_Original ==
    [][ (/\ last'.op \in {"writeFile", "truncateFile"}
         /\ last'.file.present /\ last'.file.dataProtocol = "BROWSER_FILEREADER")
            => /\ last'.out.fails = 1
               /\ last'.out.ret = 0
               /\ files' = files
               /\ fileInfoCache' = fileInfoCache ]_vars

\* C15, amended: writeFile and truncateFile on a file-reader file call failWith
\* once, return 0, send no request, reach no session and leave the registered
\* handle, the remote objects and the sandboxed storage as they were; in the
\* file-info cache the entry of the file may be replaced by the engine's
\* current record, nothing else changes.
C15_ReaderWriteRejected ==
    [][ (/\ last'.op \in {"writeFile", "truncateFile"}
         /\ last'.file.present /\ last'.file.dataProtocol = "BROWSER_FILEREADER")
            => /\ last'.out.fails = 1
               /\ last'.out.ret = 0
               /\ ~last'.out.raised
               /\ last'.out.reqs = <<>>
               /\ last'.out.io = <<>>
               /\ files' = files
               /\ remote' = remote
               /\ storage' = storage
               /\ CacheOnlyRefreshed ]_vars

C15_Witness ==
    /\ last.op = "writeFile" /\ last.file.dataProtocol = "BROWSER_FILEREADER"
    /\ last.bytes >= 1 /\ last.out.fails = 1 /\ last.out.ret = 0
    /\ files[ReaderName].blob = Body(MaxBody)

\* The registry entry of the sandboxed-storage file and whether it has a session.
OpfsEntry == files[OpfsName]
SessionHeld == OpfsEntry.accessHandle # NoSession
OnOpfs(call) == call.file.present /\ call.file.dataProtocol = "BROWSER_FSACCESS"

\* C16: with the session held, writeFile puts its n bytes at `location` and
\* nowhere else (a gap before them reads as zeros) through the session and
\* returns n; truncateFile makes the file newSize bytes long and keeps the
\* bytes before that; and a readFile of the same offset and length right
\* after a writeFile copies the bytes just written and returns their count.
C16_SessionWriteReadRoundTrip ==
    [][ /\ (SessionHeld /\ last'.op = "writeFile" /\ OnOpfs(last'))
            => /\ last'.out.ret = last'.bytes
               /\ last'.out.fails = 0 /\ ~last'.out.raised
               /\ last'.out.io = <<IoOp("write", OpfsEntry.accessHandle)>>
               /\ LET old == storage.bytes
                      new == storage'.bytes
                      from == last'.location
                      to == last'.location + last'.bytes
                  IN  /\ Len(new) = IF to > Len(old) THEN to ELSE Len(old)
                      /\ \A i \in 1..Len(new) :
                             new[i] = IF i > from /\ i <= to THEN last'.input[i - from]
                                      ELSE IF i <= Len(old) THEN old[i] ELSE 0
        /\ (SessionHeld /\ last'.op = "truncateFile" /\ OnOpfs(last'))
            => /\ last'.out.fails = 0 /\ ~last'.out.raised
               /\ last'.out.io = <<IoOp("truncate", OpfsEntry.accessHandle)>>
               /\ Len(storage'.bytes) = last'.bytes
               /\ \A i \in 1..Len(storage'.bytes) :
                      storage'.bytes[i] = IF i <= Len(storage.bytes) THEN storage.bytes[i] ELSE 0
        /\ (/\ last.op = "writeFile" /\ OnOpfs(last) /\ last.out.io # <<>> /\ last.bytes >= 1
            /\ last'.op = "readFile"
            /\ last'.bytes = last.bytes /\ last'.location = last.location)
            => /\ last'.out.dst = last.input
               /\ last'.out.ret = last.bytes
               /\ last'.out.fails = 0 ]_vars

C16_Witness ==
    /\ last.op = "readFile" /\ OnOpfs(last) /\ SessionHeld
    /\ last.location >= 1 /\ last.bytes = MaxBytes
    /\ last.out.dst = Input(MaxBytes) /\ last.out.ret = MaxBytes

\* The synchronous entry points that need the session.
SessionCalls == {"openFile", "readFile", "writeFile", "truncateFile"}

\* C17 as stated: every call on the access handle is made on a session that is
\* open, and while no session is held openFile, readFile, writeFile and
\* truncateFile fail and do no storage I/O.
C17_Original ==
    [][ /\ \A i \in 1..Len(last'.out.io) : last'.out.io[i].held
        /\ (~SessionHeld /\ last'.op \in SessionCalls /\ last' # last)
            => /\ last'.out.fails >= 1 \/ last'.out.raised
               /\ last'.out.io = <<>>
               /\ storage' = storage ]_vars

\* C17, amended: every call on the access handle is made on a session that is
\* open (created by an openFileAsync that returned, and not closed since); and
\* while no session is held, openFile, readFile of at least one byte,
\* writeFile and truncateFile fail (failWith, or for writeFile an exception
\* that leaves the entry point) and do no storage I/O, while readFile of no
\* byte returns 0 without failing and without storage I/O.
C17_SessionNeededForIo ==
    [][ /\ \A i \in 1..Len(last'.out.io) : last'.out.io[i].held
        /\ SessionHeld => storage.open = OpfsEntry.accessHandle
        /\ (~SessionHeld /\ last'.op \in SessionCalls /\ last' # last)
            => /\ last'.out.io = <<>>
               /\ storage' = storage
               /\ IF last'.op = "readFile" /\ last'.bytes = 0
                  THEN last'.out.ret = 0 /\ last'.out.fails = 0 /\ ~last'.out.raised
                  ELSE last'.out.fails >= 1 \/ last'.out.raised ]_vars

C17_Witness ==
    /\ last.op = "writeFile" /\ OnOpfs(last) /\ last.out.raised /\ last.out.io = <<>>
    /\ storage.created >= 1 /\ ~SessionHeld

\* C18: an openFileAsync of a name whose session is held (opened and not yet
\* closed) fails; one made after the close, or before any open, on a
\* registered name succeeds.
C18_HeldSessionExcludesOpen ==
    [][ /\ (SessionHeld /\ last'.op = "openFileAsync")
            => last'.out.fails >= 1
        /\ (/\ ~SessionHeld /\ storage.open = NoSession
            /\ last'.op = "openFileAsync" /\ last' # last
            /\ OpfsEntry.present /\ (OpfsEntry.dirHandle \/ OpfsEntry.fileHandle))
            => last'.out.fails = 0 ]_vars

\* C19: a close of the file with a session held flushes the session, then
\* closes it, then forgets it; a close with no session held calls no session;
\* and a session the registry entry takes up is one that was never handed out
\* before.
C19_CloseFlushesAndReleases ==
    [][ /\ (/\ last'.op \in {"closeFile", "closeFileByName"} /\ last' # last
            /\ OnOpfs(last') /\ OpfsEntry.present)
            => IF SessionHeld
               THEN /\ last'.out.io = <<IoOp("flush", OpfsEntry.accessHandle),
                                        IoOp("close", OpfsEntry.accessHandle)>>
                    /\ \A i \in 1..2 : last'.out.io[i].held
                    /\ OpfsEntry'.accessHandle = NoSession
                    /\ storage'.open = NoSession
               ELSE /\ last'.out.io = <<>>
                    /\ storage' = storage /\ files' = files
        /\ (OpfsEntry'.accessHandle # OpfsEntry.accessHandle /\ OpfsEntry'.accessHandle # NoSession)
            => /\ OpfsEntry'.accessHandle > storage.created
               /\ storage'.created = OpfsEntry'.accessHandle
               /\ storage'.open = OpfsEntry'.accessHandle
               /\ last'.op = "openFileAsync" ]_vars

C19_Witness ==
    /\ last.op = "openFileAsync" /\ last.out.fails = 0
    /\ SessionHeld /\ OpfsEntry.accessHandle = 2 /\ storage.created = 2

\* C20: closeFile with a file id the engine cannot resolve, and closeFileByName
\* with a name that resolves to no file, return (closeFileByName: false)
\* without failWith and without an exception, and leave the registry, the
\* sessions and the storage as they were.
C20_CloseOfAbsentFileIsNoOp ==
    [][ (\/ /\ last'.op = "closeFile" /\ ~engine[last'.id].present
         \/ /\ last'.op = "closeFileByName"
            /\ \A id \in FileIds : ~engine[id].present \/ engine[id].fileName # last'.name)
            => /\ last'.out.ret = 0
               /\ last'.out.fails = 0
               /\ ~last'.out.raised
               /\ last'.out.reqs = <<>>
               /\ last'.out.io = <<>>
               /\ files' = files
               /\ storage' = storage
               /\ pending' = pending ]_vars

C20_Witness ==
    /\ last.op = "closeFileByName" /\ last.name = "nowhere"
    /\ last.out.ret = 0 /\ ~last.out.raised
    /\ engine[FileId].present /\ fileInfoCache[FileId].present

\* The step is a call of the runtime (whose record is in last'), not a step
\* of the engine on its own tables.
RuntimeCalled ==
    ~(last' = last /\ (engine' # engine \/ engineGlobalInfo' # engineGlobalInfo))

\* C21: closing removes the mapping of the file id: after closeFile(fileId)
\* returned the file-info cache has no entry for fileId, also when an entry
\* was cached and the engine's lookup during the close fails.
C21_CloseRemovesMapping ==
    [][RuntimeCalled /\ last'.op = "closeFile" /\ last'.id \in KnownIds
       => ~fileInfoCache'[last'.id].present]_vars

\* C22: getFileInfo(fileId) sends the epoch of the cached record (0 when none
\* is cached) and, for a file the engine knows, returns the engine's current
\* record, which is the cache entry afterwards; it never returns an absent
\* record as a hit.
C22_GetFileInfoIsCurrent ==
    [][RuntimeCalled /\ last'.op = "getFileInfo" /\ last'.id \in KnownIds
       => LET id == last'.id
              cached == fileInfoCache[id]
          IN  /\ last'.epoch = IF cached.present THEN cached.cacheEpoch ELSE 0
              /\ IF engine[id].present
                 THEN /\ last'.file = engine[id]
                      /\ fileInfoCache'[id] = engine[id]
                      /\ last'.file.cacheEpoch >= cached.cacheEpoch
                 ELSE ~last'.file.present]_vars

\* A lookup that sent the epoch of a cached record the engine had changed
\* since, and got the new record.
C22_Witness ==
    /\ last.op = "getFileInfo" /\ last.id \in KnownIds
    /\ last.epoch = 1 /\ last.file.present /\ last.file.cacheEpoch = MaxEpoch
    /\ fileInfoCache[last.id] = engine[last.id]

\* The file id of a call resolves to no file: it is negative, not a number,
\* or the engine does not know it.
StaleId(id) == id \in InvalidIds \/ ~engine[id].present

\* C23: a stale or invalid file id resolves to absent: getFileInfo returns
\* null, and readFile, writeFile, truncateFile and closeFile on it return 0 or
\* nothing, signal no failure, raise nothing and touch neither the network nor
\* the storage.
C23_StaleIdIsAbsent ==
    [][RuntimeCalled
       /\ last'.op \in {"getFileInfo", "readFile", "writeFile", "truncateFile", "closeFile"}
       /\ StaleId(last'.id)
       => /\ ~last'.file.present
          /\ last'.out.ret = 0 /\ last'.out.fails = 0 /\ ~last'.out.raised
          /\ last'.out.reqs = <<>> /\ last'.out.io = <<>> /\ last'.out.dst = <<>>
          /\ remote' = remote /\ storage' = storage /\ files' = files]_vars

\* truncateFile on the id of a file that was resolved and cached before the
\* engine forgot it.
C23_Witness ==
    /\ last.op = "truncateFile" /\ last.id \in KnownIds
    /\ ~engine[last.id].present /\ fileInfoCache[last.id].present
    /\ last.out.ret = 0 /\ last.out.fails = 0

\* C24: every failure of openFile, readFile, writeFile or truncateFile reaches
\* the engine as a single failWith and a normal return of 0: no exception
\* leaves these entry points, whatever backs the file, a sandboxed-storage
\* file whose session is not held included.
C24_FailuresAreSignalled ==
    last.op \in {"openFile", "readFile", "writeFile", "truncateFile"}
        => /\ ~last.out.raised
           /\ last.out.fails <= 1
           /\ (last.out.fails = 1 => last.out.ret = 0)

\* The answer to request i of the last call was 200 or 206.
Answered(i) == ~Reqs[i].threw /\ Reqs[i].status \in {200, 206}

\* C25: checkFile on a remote path (http://, https:// or s3://) that has no
\* registry entry sends exactly one request, a HEAD for the path, returns true
\* iff it was answered 200 or 206, false for a not-found answer, and false
\* without raising or signalling when the request fails in transport.
C25_CheckRemoteProbesOnce ==
    (/\ last.op = "checkFile"
     /\ last.name \in {UrlOf("HTTP"), HttpsUrl, UrlOf("S3")}
     /\ ~files[last.name].present)
        => /\ Len(Reqs) = 1
           /\ Reqs[1].method = "HEAD" /\ Reqs[1].url = last.name
           /\ ~last.out.raised /\ last.out.fails = 0
           /\ last.out.ret \in {0, 1}
           /\ (last.out.ret = 1 <=> Answered(1))
           /\ (Reqs[1].status = 404 => last.out.ret = 0)
           /\ (Reqs[1].threw => last.out.ret = 0)

\* checkFile of an s3 url whose store answered not found.
C25_Witness ==
    /\ last.op = "checkFile" /\ last.name = UrlOf("S3")
    /\ Len(Reqs) = 1 /\ Reqs[1].status = 404 /\ last.out.ret = 0

\* C26: checkFile on a name with a registry entry sends no request and
\* returns false iff the entry's File snapshot has size 0 and the entry is
\* configured emptyAsAbsent; on a name with no registry entry that is not a
\* remote url it returns false.
C26_CheckLocalEntry ==
    last.op = "checkFile"
        => LET handle == files[last.name]
           IN  /\ handle.present
                    => /\ Reqs = <<>>
                       /\ last.out.ret \in {0, 1}
                       /\ (last.out.ret = 0 <=> (handle.file = 0 /\ handle.emptyAsAbsent))
               /\ (~handle.present
                   /\ last.name \notin {UrlOf("HTTP"), HttpsUrl, UrlOf("S3")})
                    => /\ Reqs = <<>> /\ last.out.ret = 0
               /\ ~last.out.raised /\ last.out.fails = 0

\* checkFile of the OPFS name whose entry is empty and counts as absent.
C26_Witness ==
    /\ last.op = "checkFile" /\ last.name = OpfsName
    /\ files[OpfsName].file = 0 /\ files[OpfsName].emptyAsAbsent
    /\ last.out.ret = 0 /\ Reqs = <<>>

\* The patterns glob takes for remote: those that begin with "http" or "s3://".
RemoteLooking == {UrlOf("HTTP"), HttpsUrl, UrlOf("S3"), HttpLikeName}

\* C27: glob registers at most one path per call, the literal path.  For a
\* pattern that begins with "http" or "s3://" it registers the path iff the
\* HEAD was answered 200 or 206 or the one-byte ranged GET, sent only when
\* full HTTP reads are allowed, was answered 200 or 206, and otherwise calls
\* failWith and registers nothing; for any other pattern it registers
\* nothing, sends nothing and signals nothing.
C27_GlobRegistersLiteralPath ==
    [][ (RuntimeCalled /\ last'.op = "glob")
            => LET out == last'.out
                   reqs == out.reqs
                   ok(i) == ~reqs[i].threw /\ reqs[i].status \in {200, 206}
               IN  /\ out.added \in {<<>>, <<last'.name>>}
                   /\ ~out.raised
                   /\ IF last'.name \in RemoteLooking
                      THEN /\ Len(reqs) \in {1, 2}
                           /\ reqs[1].method = "HEAD"
                           /\ Len(reqs) = 2
                                => /\ reqs[2].method = "GET" /\ reqs[2].range = <<0, 0>>
                                   /\ engineGlobalInfo.allowFullHttpReads
                                   /\ ~ok(1)
                           /\ (out.added = <<last'.name>> <=> \E i \in 1..Len(reqs) : ok(i))
                           /\ (out.added = <<>> <=> out.fails = 1)
                           /\ out.fails \in {0, 1}
                      ELSE out.added = <<>> /\ reqs = <<>> /\ out.fails = 0 ]_vars

\* glob of an s3 path whose HEAD was refused and whose ranged GET confirmed it.
C27_Witness ==
    /\ last.op = "glob" /\ last.name = UrlOf("S3")
    /\ Len(Reqs) = 2 /\ Reqs[1].status = 404 /\ Reqs[2].status = 206
    /\ last.out.added = <<UrlOf("S3")>> /\ last.out.fails = 0

\* C28: moveFile(from, to) with `from` registered rebinds the entry: `to` maps
\* to the handle `from` mapped to, `from` is no longer registered and every
\* other entry is unchanged.
C28_MoveRebindsEntry ==
    [][ (/\ last'.op = "moveFile" /\ last' # last
         /\ files[last'.name].present /\ last'.name # last'.to)
            => /\ files'[last'.to] = files[last'.name]
               /\ ~files'[last'.name].present
               /\ \A p \in Paths \ {last'.name, last'.to} : files'[p] = files[p] ]_vars

\* C29: after moveFile(from, to) the file-info cache holds no record located
\* at `from`, however many file ids had one cached.
C29_MoveInvalidatesCache ==
    [][ (last'.op = "moveFile" /\ last' # last)
            => \A id \in KnownIds :
                   ~(fileInfoCache'[id].present /\ fileInfoCache'[id].dataUrl = last'.name) ]_vars

\* C30: every request to S3 carries a signature computed for the method the
\* request is sent with.
C30_SignedForItsMethod ==
    \A i \in 1..Len(Reqs) :
        /\ Reqs[i].url = UrlOf("S3") => Reqs[i].sig # "none"
        /\ Reqs[i].sig # "none" => Reqs[i].sig = Reqs[i].method

\* The openFileAsync calls that started createSyncAccessHandle and await it.
Acquiring == {k \in DOMAIN pending : pending[k].pc = "createSyncAccessHandle"}

\* C31: however openFileAsync calls on one name interleave, no call starts
\* to acquire a session (createSyncAccessHandle) while another acquisition
\* for the name is pending or a session is held.
C31_OneAcquisitionAtATime ==
    Cardinality(Acquiring) + (IF SessionHeld THEN 1 ELSE 0) <= 1

\* C32: a closeFile that runs while an openFileAsync of the name is suspended
\* leaves no session behind: the call it overtook acquires no session when
\* it runs on (a session acquired then is one no close has released once
\* every call has returned).
C32_CloseOutlastsPendingOpen ==
    [][ \A k \in DOMAIN pending :
            (pending[k].pc \in Awaits /\ pending[k].overtaken /\ pending'[k].pc = "idle")
                => ~(OpfsEntry.accessHandle = NoSession /\ OpfsEntry'.accessHandle # NoSession) ]_vars

\* C33: a successful open (openFileAsync or openFile) of a sandboxed-storage
\* file reports the length the file has at that moment, also after a
\* session wrote to it or truncated it and was closed.
C33_OpenReportsCurrentLength ==
    (/\ last.op \in {"openFileAsync", "openFile"}
     /\ OnOpfs(last)
     /\ last.out.fails = 0)
        => last.out.size = Len(storage.bytes)

\* C34: a successful openFile for reading on a remote file reports the total
\* length of the remote object, whichever step of the ladder answered; when
\* it hands over a buffer, the buffer is the whole object.
C34_OpenReportsTotalLength ==
    (OpenForRead /\ last.out.ret # 0)
        => /\ last.out.size = Len(Object)
           /\ last.out.hasBuf => last.out.buf = Object

\* The step is a writeFile on an S3 file.
S3Write == last'.op = "writeFile" /\ last' # last /\ last'.file.present /\ last'.file.dataProtocol = "S3"

\* The one PUT of an S3 write: the bytes of this call and nothing else, as
\* the whole object, whatever the offset.
PutsItsBytes(call) ==
    /\ Len(call.out.reqs) = 1
    /\ call.out.reqs[1].method = "PUT" /\ call.out.reqs[1].range = NoRange
    /\ call.out.reqs[1].url = call.file.dataUrl
    /\ call.out.reqs[1].sent = Input(call.bytes)

C36_ReadWithinRequest ==
    last.op = "readFile"
        => /\ Len(last.out.dst) <= last.bytes
           /\ last.out.ret <= last.bytes
           /\ last.out.ret <= Len(last.out.dst)
           /\ last.out.ret >= 0

\* A ranged read answered with more bytes than asked for (a longer range, or
\* the whole object): the copy stops at `bytes`.
C36_Witness ==
    /\ RemoteRead
    /\ Len(Reqs) = 1 /\ Reqs[1].mode \in {"overshoots", "ignores"}
    /\ Len(Object) - last.location > last.bytes
    /\ last.out.fails = 0
    /\ last.out.ret = last.bytes /\ Len(last.out.dst) = last.bytes

\* C37: closeFile and closeFileByName return normally for every file record,
\* also for a sandboxed-storage record whose name has no entry in the
\* registry: no exception leaves them.
C37_CloseNeverRaises ==
    last.op \in {"closeFile", "closeFileByName"} => ~last.out.raised

\* The last call was about a file-reader file; no handle is registered under
\* its name.
OnReader(call) == call.file.present /\ call.file.dataProtocol = "BROWSER_FILEREADER"
Unregistered(call) == ~files[call.file.fileName].present

\* C38: openFile on a file-reader file never fails and sends nothing: with
\* a handle registered it reports the handle's size and no buffer, with none
\* registered it reports size 1 and a placeholder buffer of one byte; a
\* readFile of at least one byte on the unregistered name is what signals a
\* failure (and returns 0, copying nothing).
C38_MissingReaderFileIsBuffered ==
    /\ (last.op = "openFile" /\ OnReader(last))
          => /\ last.out.ret = 1 /\ last.out.fails = 0 /\ ~last.out.raised
             /\ last.out.reqs = <<>>
             /\ IF Unregistered(last)
                THEN last.out.hasBuf /\ last.out.size = 1 /\ Len(last.out.buf) = 1
                ELSE /\ ~last.out.hasBuf
                     /\ last.out.size = Len(files[last.file.fileName].blob)
    /\ (last.op = "readFile" /\ last.bytes >= 1 /\ OnReader(last) /\ Unregistered(last))
          => /\ last.out.ret = 0 /\ last.out.fails = 1 /\ ~last.out.raised
             /\ last.out.dst = <<>>

\* The open of the unregistered file succeeded with the placeholder buffer,
\* and the readFile that followed failed.
C38_Witness ==
    /\ last.op = "readFile" /\ OnReader(last) /\ Unregistered(last)
    /\ last.out.fails = 1
    /\ opened[last.id].mode = "buffer" /\ opened[last.id].size = 1

\* C39: openFile drops the cached record of the id and resolves it anew;
\* for an id the engine does not know and for a protocol openFile has no case
\* for (BUFFER, NODE_FS) it signals one failure and returns the null result,
\* sends no request and touches neither registry nor storage.
C39_UnsupportedOpenFails ==
    [][ (/\ last'.op = "openFile" /\ last' # last
         /\ ~last'.file.present \/ last'.file.dataProtocol \in {"BUFFER", "NODE_FS"})
            => /\ last'.file = engine[last'.id]
               /\ fileInfoCache'[last'.id] = engine[last'.id]
               /\ last'.out.ret = 0 /\ last'.out.fails = 1 /\ ~last'.out.raised
               /\ last'.out.reqs = <<>> /\ last'.out.io = <<>>
               /\ ~last'.out.hasBuf
               /\ files' = files /\ storage' = storage /\ pending' = pending
               /\ remote' = remote /\ opened' = opened ]_vars

\* An openFile on an in-memory buffer or a node file failed.
C39_Witness ==
    /\ last.op = "openFile"
    /\ last.file.present /\ last.file.dataProtocol \in {"BUFFER", "NODE_FS"}
    /\ last.out.fails = 1 /\ last.out.ret = 0

====
